---- MODULE Spec2Model ----
(***************************************************************************)
(* A model of the UTXO blockchain indexer: BlockchainService over the     *)
(* Block/Transaction/Output repositories and a PostgreSQL store running   *)
(* at READ COMMITTED isolation.                                           *)
(*                                                                         *)
(* The three tables are the committed state.  Every request handler is a  *)
(* process; each `await` of the service is one step of that process.      *)
(* Statements issued on a pooled client between BEGIN and COMMIT go to    *)
(* that process's uncommitted write set, keep row locks until the          *)
(* transaction ends, and wait (the step is disabled) on rows another       *)
(* open transaction has written.  Statements issued on the pool itself     *)
(* (getCurrentHeight, getOutput, getBalanceForAddress) read committed      *)
(* rows only.                                                              *)
(*                                                                         *)
(* Output values are counted in units of 2^-21 (0.000000476837158203125): *)
(* every value of the model, and every sum and difference the service      *)
(* forms of them, is a double without rounding, NUMERIC stores it as it    *)
(* is and parseFloat reads it back, so that the integer arithmetic here    *)
(* is the arithmetic of the code.  The tolerance 0.000001 of the           *)
(* conservation check is 2.097152 units: a whole number of units exceeds   *)
(* it exactly when it exceeds 2.                                           *)
(***************************************************************************)
EXTENDS Integers, Sequences, FiniteSets, TLC

VARIABLES
  blocks,        \* committed rows of table blocks: [id, height]
  transactions,  \* committed rows of table transactions: [id, block_id]
  outputs,       \* committed rows of table outputs
  txn,           \* per process: the open store transaction's write set and locks
  pc,            \* per process: the await the handler is suspended at
  req,           \* per process: the request being served
  loc,           \* per process: the handler's local variables
  result,        \* per process: the reply of the last finished request
  conn,          \* per process: pooled clients currently checked out
  admissible,    \* per process (history): the submitted block met every
                 \* admission rule in the ledger as committed on arrival
  hist,          \* (history) per height: the block admitted there and the
                 \* outputs table as committed just before its COMMIT
  pool,          \* db/connection.ts: the module's pool, with (history)
                 \* whether a query on it has succeeded
  boot           \* per caller of initializeDatabase: the await its call is
                 \* suspended at, its retries, and (history) its probes and
                 \* the pool it returned

vars ==
  <<blocks, transactions, outputs, txn, pc, req, loc, result, conn, admissible, hist,
    pool, boot>>

----------------------------------------------------------------------------
(* Bounds and configuration *)

\* Highest block height a request names when requests are served concurrently.
MaxHeight == 2

\* Highest block height a request names where progress is checked.
FairMaxHeight == 2

\* Highest block height a request names when requests are served one at a time.
SeqMaxHeight == 3

\* Longest list of transactions, inputs or outputs in a body handed to the
\* schema validator.
MaxItems == 1

\* Longest height parameter, in characters, handed to the height validator.
MaxChars == 3

\* Calls of initializeDatabase made in one run of the process.
MaxCalls == 2

\* The callers of initializeDatabase, one call each.
Callers == 1..MaxCalls

\* config.blockchain.maxRollbackBlocks, as set by MAX_ROLLBACK_BLOCKS in the
\* environment; a small setting, so that the limit is met within MaxHeight.
maxRollbackBlocks == 2

\* The literal 0.000001 of validateTransactionBalances: 2.097152 units of
\* 2^-21.  The differences compared with it are whole numbers of units, and
\* such a number is > 0.000001 exactly when it is > 2.
Tolerance == 2

Procs == {"p1", "p2"}

NULL == "NULL"
NoIndex == 0 - 1

\* A nullable column holds SQL NULL or one value; NULL is equal to no value.
SqlNull == {}
Holds(v) == {v}

----------------------------------------------------------------------------
(* Generic helpers *)

RECURSIVE SumSeq(_)
SumSeq(s) == IF s = <<>> THEN 0 ELSE Head(s) + SumSeq(Tail(s))

RECURSIVE JoinStr(_)
\* Array.prototype.join('') on a list of strings.
JoinStr(s) == IF s = <<>> THEN "" ELSE Head(s) \o JoinStr(Tail(s))

RECURSIVE SumValues(_)
\* SQL SUM(value) over a set of rows.
SumValues(rows) ==
  IF rows = {} THEN 0
  ELSE LET r == CHOOSE x \in rows : TRUE IN r.value + SumValues(rows \ {r})

Abs(x) == IF x < 0 THEN 0 - x ELSE x

Max(S) == CHOOSE x \in S : \A y \in S : y <= x

----------------------------------------------------------------------------
(* Request payloads *)

In(t, i) == [txId |-> t, index |-> i]
Out(a, v) == [address |-> a, value |-> v]
Tx(id, ins, outs) == [id |-> id, inputs |-> ins, outputs |-> outs]

\* BlockchainService.calculateBlockHash: the digest of height.toString()
\* followed by the transaction ids joined without a separator.  SHA-256 is
\* modelled as injective: a digest is identified with the string it digests.
calculateBlockHash(height, transactionIds) ==
  ToString(height) \o JoinStr(transactionIds)

TxIdsOf(b) == [k \in 1..Len(b.transactions) |-> b.transactions[k].id]

\* A block carrying the id the service expects for its content.
Blk(h, txs) ==
  [id |-> calculateBlockHash(h, [k \in 1..Len(txs) |-> txs[k].id]),
   height |-> h, transactions |-> txs]

Genesis ==
  Blk(1, <<Tx("t1", <<>>, <<Out("a1", 50), Out("a2", 30)>>)>>)

\* Two blocks for height 2 that spend the same output t1:0.
Spend2a ==
  Blk(2, <<Tx("t2", <<In("t1", 0)>>, <<Out("a2", 50)>>)>>)

Spend2b ==
  Blk(2, <<Tx("t3", <<In("t1", 0)>>, <<Out("a1", 20), Out("a2", 30)>>)>>)

\* One transaction naming t1:0 in two of its inputs; the values balance.
DoubleIn2 ==
  Blk(2, <<Tx("t6", <<In("t1", 0), In("t1", 0)>>, <<Out("a3", 100)>>)>>)

\* Height 3: one block spending t1:0 again, one spending t1:1.
Spend3a ==
  Blk(3, <<Tx("t5", <<In("t1", 0)>>, <<Out("a1", 50)>>)>>)

Spend3b ==
  Blk(3, <<Tx("t4", <<In("t1", 1)>>, <<Out("a1", 30)>>)>>)

EmptyBlock(h) == Blk(h, <<>>)

Catalogue == {Genesis, Spend2a, Spend2b, DoubleIn2, Spend3a, Spend3b}

\* The blocks clients submit, up to height maxH.
BlockPool(maxH) ==
  {b \in Catalogue : b.height <= maxH} \cup {EmptyBlock(h) : h \in 2..maxH}

\* The heights clients ask to roll back to (validateRollbackHeight has
\* already made them integers >= 0).
RollbackTargets(maxH) == 0..(maxH - 1)

Addresses == {"a1", "a2", "a3"}

\* --- further request bodies, for the admission checks ---

\* Height 1: two outputs for one address, one of value 0.
GenesisTwice ==
  Blk(1, <<Tx("t7", <<>>, <<Out("a1", 50), Out("a1", 0)>>)>>)

\* Height 1 with an input.
GenesisWithInput ==
  Blk(1, <<Tx("t8", <<In("t1", 0)>>, <<Out("a1", 50)>>)>>)

\* Height 2, spending t1:1 (value 30): outputs off by the largest number of
\* units within the tolerance, by one unit more upwards, and by one unit
\* more downwards.
Within2 ==
  Blk(2, <<Tx("t9", <<In("t1", 1)>>, <<Out("a3", 30 + Tolerance)>>)>>)

Inflate2 ==
  Blk(2, <<Tx("t10", <<In("t1", 1)>>, <<Out("a3", 31 + Tolerance)>>)>>)

Burn2 ==
  Blk(2, <<Tx("t17", <<In("t1", 1)>>, <<Out("a3", 29 - Tolerance)>>)>>)

\* Height 2: no transaction balances on its own, the block does.
Cross2 ==
  Blk(2, <<Tx("t11", <<In("t1", 0)>>, <<>>), Tx("t12", <<>>, <<Out("a3", 50)>>)>>)

\* Cross2 under the digest of its transaction ids in the reverse order.
Cross2Swapped ==
  [Cross2 EXCEPT !.id = calculateBlockHash(2, <<"t12", "t11">>)]

\* Height 2: an input naming no output, then a good one; values do not balance.
Ghost2 ==
  Blk(2, <<Tx("t13", <<In("t0", 0), In("t1", 0)>>, <<Out("a3", 99)>>)>>)

\* Height 2: the second transaction spends an output of the first.
Chain2 ==
  Blk(2, <<Tx("t14", <<In("t1", 0)>>, <<Out("a3", 50)>>),
           Tx("t15", <<In("t14", 0)>>, <<Out("a2", 50)>>)>>)

\* Height 3: t1:0 and an input naming no output, in both orders; values do
\* not balance.
SpentThenGhost3 ==
  Blk(3, <<Tx("t16", <<In("t1", 0), In("t0", 0)>>, <<Out("a3", 1)>>)>>)

GhostThenSpent3 ==
  Blk(3, <<Tx("t18", <<In("t0", 0), In("t1", 0)>>, <<Out("a3", 1)>>)>>)

\* Height 3: t1:0, then an output of the block's own first transaction.
Chain3 ==
  Blk(3, <<Tx("t20", <<In("t1", 0)>>, <<Out("a3", 50)>>),
           Tx("t21", <<In("t20", 0)>>, <<Out("a2", 50)>>)>>)

\* Height 3: a transaction under the id of the genesis transaction; one id
\* carried by two transactions.  Height 2: the id of Spend2a's transaction on
\* another payload.
Reuse3 ==
  Blk(3, <<Tx("t1", <<>>, <<>>)>>)

Twin3 ==
  Blk(3, <<Tx("t19", <<In("t1", 0)>>, <<Out("a3", 50)>>), Tx("t19", <<>>, <<>>)>>)

Respend2 ==
  Blk(2, <<Tx("t2", <<In("t1", 1)>>, <<Out("a3", 30)>>)>>)

\* A block under an id that is no digest of its content.
WrongId(b) == [b EXCEPT !.id = "x"]

ProbeCatalogue ==
  Catalogue \cup {GenesisTwice, GenesisWithInput, Within2, Inflate2, Burn2,
                  Cross2, Ghost2, Chain2, SpentThenGhost3, GhostThenSpent3,
                  Reuse3, Twin3, Respend2, Chain3}

\* The blocks submitted when the admission checks are exercised.
ProbePool(maxH) ==
  LET sound == {b \in ProbeCatalogue : b.height <= maxH}
                 \cup {EmptyBlock(h) : h \in 2..maxH}
  IN  sound \cup {WrongId(b) : b \in sound} \cup {Cross2Swapped}

\* Rollback targets up to one above every height the ledger reaches.
ProbeTargets(maxH) == 0..(maxH + 1)

\* All inputs of a block in the order validateTransactionBalances visits
\* them (transactions in block order, inputs in transaction order).
RECURSIVE FlatInputs(_)
FlatInputs(txs) ==
  IF txs = <<>> THEN <<>> ELSE Head(txs).inputs \o FlatInputs(Tail(txs))

RECURSIVE FlatOutputValues(_)
FlatOutputValues(txs) ==
  IF txs = <<>> THEN <<>>
  ELSE [k \in 1..Len(Head(txs).outputs) |-> Head(txs).outputs[k].value]
         \o FlatOutputValues(Tail(txs))

----------------------------------------------------------------------------
(* Errors and replies *)

\* errors/index.ts: AppError and its subclasses carry statusCode and code.
ValidationError(message, code) ==
  [name |-> "ValidationError", message |-> message, statusCode |-> 400, code |-> code]

AppError(message, statusCode) ==
  [name |-> "AppError", message |-> message, statusCode |-> statusCode, code |-> NULL]

\* Mutant: the conflict raised as an ordinary validation failure.
ConflictError_As400(message, code) ==
  [name |-> "ValidationError", message |-> message, statusCode |-> 400, code |-> code]

ConflictError(message, code) ==
  [name |-> "ConflictError", message |-> message, statusCode |-> 409, code |-> code]

\* A plain Error (thrown by markOutputAsSpent) or a driver error of the store:
\* not an AppError.
PlainError(message) ==
  [name |-> "Error", message |-> message, statusCode |-> 0, code |-> NULL]

NoError == [name |-> NULL, message |-> NULL, statusCode |-> 0, code |-> NULL]

IsAppError(e) ==
  e.name \in {"AppError", "ValidationError", "NotFoundError", "ConflictError",
              "BlockchainError"}

\* Mutant: an error that is no AppError is sent with its own message.
handleError_Leaks(error) ==
  IF IsAppError(error)
  THEN [status |-> error.statusCode, error |-> error.message, code |-> error.code,
        value |-> NoIndex]
  ELSE [status |-> 500, error |-> error.message, code |-> NULL, value |-> NoIndex]

\* routes/blockchain.ts handleError.
handleError(error) ==
  IF IsAppError(error)
  THEN [status |-> error.statusCode, error |-> error.message, code |-> error.code,
        value |-> NoIndex]
  ELSE [status |-> 500, error |-> "Internal server error", code |-> NULL,
        value |-> NoIndex]

\* An error that leaves a handler: Fastify's error handler answers with the
\* status 500 (the error carries none), the name of that status, and the
\* error's own code and message.
Unhandled(error) ==
  [status |-> 500, error |-> "Internal Server Error", code |-> error.code,
   value |-> NoIndex, message |-> error.message]

\* reply.status(200).send({...}): value is the height or the balance sent.
Success(value) ==
  [status |-> 200, error |-> NULL, code |-> NULL, value |-> value]

NoReply == [status |-> 0, error |-> NULL, code |-> NULL, value |-> NoIndex]

----------------------------------------------------------------------------
(* Request bodies as parsed JSON, and BlockValidator over them *)

\* A JavaScript value of a request body.  Numbers are counted in halves, so
\* that 3 halves is the number 1.5; NaN is a number of its own.
JsUndefined == [kind |-> "undefined"]

JsNull == [kind |-> "null"]

JsNaN == [kind |-> "NaN"]

JsString(s) == [kind |-> "string", str |-> s]

JsNumber(h) == [kind |-> "number", halves |-> h]

JsArray(items) == [kind |-> "array", items |-> items]

\* typeof v
typeof(v) ==
  CASE v.kind \in {"null", "array"} -> "object"
    [] v.kind = "NaN" -> "number"
    [] OTHER -> v.kind

\* !v is false: undefined, null, NaN, 0 and "" are the falsy values.
Truthy(v) ==
  CASE v.kind = "string" -> v.str # ""
    [] v.kind = "number" -> v.halves # 0
    [] v.kind \in {"object", "array"} -> TRUE
    [] OTHER -> FALSE

\* v < k for a v of type number: every comparison with NaN is false.
LessThan(v, k) == v.kind = "number" /\ v.halves < 2 * k

\* Array.isArray(v)
isArray(v) == v.kind = "array"

\* data.f: undefined where the value has no such property.
Prop(data, f) == IF f \in DOMAIN data THEN data[f] ELSE JsUndefined

\* items.map(validate) throws what the first failing element throws.
FirstThrown(errors) ==
  IF \E i \in 1..Len(errors) : errors[i] # NoError
  THEN errors[CHOOSE i \in 1..Len(errors) :
                /\ errors[i] # NoError
                /\ \A j \in 1..(i - 1) : errors[j] = NoError]
  ELSE NoError

\* BlockValidator.validateInputSchema: what it throws, NoError where it
\* returns the txId and index it was given.
validateInputSchema(data) ==
  IF ~ Truthy(data) \/ typeof(data) # "object"
  THEN ValidationError("Invalid input data", NULL)
  ELSE IF typeof(Prop(data, "txId")) # "string" \/ ~ Truthy(Prop(data, "txId"))
  THEN ValidationError("Input txId must be a non-empty string", NULL)
  ELSE IF typeof(Prop(data, "index")) # "number" \/ LessThan(Prop(data, "index"), 0)
  THEN ValidationError("Input index must be a non-negative number", NULL)
  ELSE NoError

\* BlockValidator.validateOutputSchema.
validateOutputSchema(data) ==
  IF ~ Truthy(data) \/ typeof(data) # "object"
  THEN ValidationError("Invalid output data", NULL)
  ELSE IF typeof(Prop(data, "address")) # "string" \/ ~ Truthy(Prop(data, "address"))
  THEN ValidationError("Output address must be a non-empty string", NULL)
  ELSE IF typeof(Prop(data, "value")) # "number" \/ LessThan(Prop(data, "value"), 0)
  THEN ValidationError("Output value must be a non-negative number", NULL)
  ELSE NoError

\* BlockValidator.validateTransactionSchema: the inputs are mapped before
\* the outputs.
validateTransactionSchema(data) ==
  IF ~ Truthy(data) \/ typeof(data) # "object"
  THEN ValidationError("Invalid transaction data", NULL)
  ELSE IF typeof(Prop(data, "id")) # "string" \/ ~ Truthy(Prop(data, "id"))
  THEN ValidationError("Transaction ID must be a non-empty string", NULL)
  ELSE IF ~ isArray(Prop(data, "inputs"))
  THEN ValidationError("Transaction inputs must be an array", NULL)
  ELSE IF ~ isArray(Prop(data, "outputs"))
  THEN ValidationError("Transaction outputs must be an array", NULL)
  ELSE FirstThrown(
         [i \in 1..Len(data.inputs.items) |->
            validateInputSchema(data.inputs.items[i])]
           \o [i \in 1..Len(data.outputs.items) |->
                 validateOutputSchema(data.outputs.items[i])])

\* BlockValidator.validateBlockSchema.
validateBlockSchema(data) ==
  IF ~ Truthy(data) \/ typeof(data) # "object"
  THEN ValidationError("Invalid block data", NULL)
  ELSE IF typeof(Prop(data, "id")) # "string" \/ ~ Truthy(Prop(data, "id"))
  THEN ValidationError("Block ID must be a non-empty string", NULL)
  ELSE IF typeof(Prop(data, "height")) # "number" \/ LessThan(Prop(data, "height"), 1)
  THEN ValidationError("Block height must be a positive number", NULL)
  ELSE IF ~ isArray(Prop(data, "transactions"))
  THEN ValidationError("Block transactions must be an array", NULL)
  ELSE FirstThrown(
         [i \in 1..Len(data.transactions.items) |->
            validateTransactionSchema(data.transactions.items[i])])

\* request.body of POST /blocks as the handler hands it to the validator.
\* The validator reads of a number its type and its sign only, so that a
\* value is carried by the count of its units.
JsInput(input) ==
  [kind |-> "object", txId |-> JsString(input.txId),
   index |-> JsNumber(2 * input.index)]

JsOutput(output) ==
  [kind |-> "object", address |-> JsString(output.address),
   value |-> JsNumber(2 * output.value)]

JsTransaction(tx) ==
  [kind |-> "object", id |-> JsString(tx.id),
   inputs |-> JsArray([i \in 1..Len(tx.inputs) |-> JsInput(tx.inputs[i])]),
   outputs |-> JsArray([i \in 1..Len(tx.outputs) |-> JsOutput(tx.outputs[i])])]

JsBlock(block) ==
  [kind |-> "object", id |-> JsString(block.id),
   height |-> JsNumber(2 * block.height),
   transactions |->
     JsArray([i \in 1..Len(block.transactions) |->
                JsTransaction(block.transactions[i])])]

----------------------------------------------------------------------------
(* The store: tables, constraints, write sets *)

Key(o) == <<o.tx_id, o.output_index>>

\* A row of outputs as createOutput inserts it.
OutputRow(txId, index, output) ==
  [tx_id |-> txId, output_index |-> index, address |-> output.address,
   value |-> output.value, spent |-> FALSE, spent_by_tx |-> SqlNull,
   spent_by_index |-> SqlNull]

NoTxn ==
  [open |-> FALSE, insBlocks |-> {}, insTxs |-> {}, newOutputs |-> {},
   delBlocks |-> {}, delTxs |-> {}, lockedOut |-> {}]

\* What the statements of p's open transaction see: committed rows it has not
\* itself superseded or deleted, and its own uncommitted rows.
ViewBlocks(p) ==
  {b \in blocks : b.id \notin txn[p].delBlocks} \cup txn[p].insBlocks

ViewTxs(p) ==
  {t \in transactions : t.id \notin txn[p].delTxs} \cup txn[p].insTxs

ViewOutputs(p) ==
  {o \in outputs : Key(o) \notin txn[p].lockedOut} \cup txn[p].newOutputs

Others(p) == Procs \ {p}

\* Row locks other open transactions hold on committed rows.
OutputLockedByOther(p, k) == \E q \in Others(p) : k \in txn[q].lockedOut

BlockLockedByOther(p, id) == \E q \in Others(p) : id \in txn[q].delBlocks

TxLockedByOther(p, id) == \E q \in Others(p) : id \in txn[q].delTxs

----------------------------------------------------------------------------
(* Repositories *)

\* BlockRepository.getCurrentHeight: SELECT COALESCE(MAX(height), 0) FROM blocks,
\* on the pool (committed rows).
\* Mutant: the query takes MIN(height).
getCurrentHeight_Min ==
  IF blocks = {} THEN 0
  ELSE CHOOSE h \in {b.height : b \in blocks} : \A c \in blocks : h <= c.height

getCurrentHeight ==
  IF blocks = {} THEN 0 ELSE Max({b.height : b \in blocks})

\* OutputRepository.getOutput, on the pool: the committed rows with that key
\* (UNIQUE(tx_id, output_index) leaves at most one); the empty set is null.
getOutput(txId, index) ==
  {o \in outputs : o.tx_id = txId /\ o.output_index = index}

\* Mutant: the balance query without its "AND spent = FALSE" filter.
getBalanceForAddress_AllOutputs(address) ==
  LET rows == {o \in outputs : o.address = address}
  IN  IF rows = {} THEN 0 ELSE SumValues(rows)

\* Mutant: the balance query sees the uncommitted writes of open transactions.
getBalanceForAddress_Dirty(address) ==
  LET seen == {o \in outputs : \A q \in Procs : Key(o) \notin txn[q].lockedOut}
                \cup UNION {txn[q].newOutputs : q \in Procs}
      rows == {o \in seen : o.address = address /\ o.spent = FALSE}
  IN  IF rows = {} THEN 0 ELSE SumValues(rows)

\* OutputRepository.getBalanceForAddress, on the pool:
\* SELECT COALESCE(SUM(value), 0) FROM outputs WHERE address = $1 AND spent = FALSE.
getBalanceForAddress(address) ==
  LET rows == {o \in outputs : o.address = address /\ o.spent = FALSE}
  IN  IF rows = {} THEN 0 ELSE SumValues(rows)

\* BlockRepository.createBlock: INSERT INTO blocks (id, height).
\* id is the primary key and height is UNIQUE.
BlockRowOf(block) == [id |-> block.id, height |-> block.height]

\* Mutant: blocks.height is not UNIQUE; only the primary key is checked.
BlockClash_IdOnly(a, b) == a.id = b.id

BlockClash(a, b) == a.id = b.id \/ a.height = b.height

\* The insert waits while another open transaction holds an uncommitted row
\* with the same key, or an uncommitted delete of the committed row with it.
createBlockWaits(p, block) ==
  \E q \in Others(p) :
    \/ \E b \in txn[q].insBlocks : BlockClash(b, BlockRowOf(block))
    \/ \E b \in blocks : BlockClash(b, BlockRowOf(block)) /\ b.id \in txn[q].delBlocks

createBlockViolates(p, block) ==
  \E b \in ViewBlocks(p) : BlockClash(b, BlockRowOf(block))

createBlock(p, block) ==
  [txn[p] EXCEPT !.insBlocks = @ \cup {BlockRowOf(block)}]

\* TransactionRepository.createTransaction: INSERT INTO transactions (id, block_id);
\* id is the primary key, block_id REFERENCES blocks(id).
createTransactionWaits(p, tx) ==
  \E q \in Others(p) :
    \/ \E t \in txn[q].insTxs : t.id = tx.id
    \/ \E t \in transactions : t.id = tx.id /\ t.id \in txn[q].delTxs

\* Mutant: transactions.id is no key; only the reference to blocks is checked.
createTransactionViolates_NoKey(p, tx, blockId) ==
  ~ \E b \in ViewBlocks(p) : b.id = blockId

createTransactionViolates(p, tx, blockId) ==
  \/ \E t \in ViewTxs(p) : t.id = tx.id
  \/ ~ \E b \in ViewBlocks(p) : b.id = blockId

createTransaction(p, tx, blockId) ==
  [txn[p] EXCEPT !.insTxs = @ \cup {[id |-> tx.id, block_id |-> blockId]}]

\* Mutant: the UPDATE without its "AND spent = FALSE" guard.
markOutputAsSpentRows_NoGuard(p, txId, index) ==
  {o \in ViewOutputs(p) : o.tx_id = txId /\ o.output_index = index}

\* OutputRepository.markOutputAsSpent:
\* UPDATE outputs SET spent = TRUE, spent_by_tx, spent_by_index
\*   WHERE tx_id = $3 AND output_index = $4 AND spent = FALSE.
\* The rows the statement matches in p's view.
markOutputAsSpentRows(p, txId, index) ==
  {o \in ViewOutputs(p) :
     o.tx_id = txId /\ o.output_index = index /\ o.spent = FALSE}

\* A matching committed row another open transaction has updated or deleted
\* makes the UPDATE wait for that transaction to end.
markOutputAsSpentWaits(p, txId, index) ==
  \E o \in markOutputAsSpentRows(p, txId, index) :
    o \in outputs /\ OutputLockedByOther(p, Key(o))

\* result.rowCount
markOutputAsSpentRowCount(p, txId, index) ==
  Cardinality(markOutputAsSpentRows(p, txId, index))

markOutputAsSpent(p, txId, index, spentByTx, spentByIndex) ==
  LET hit == markOutputAsSpentRows(p, txId, index)
      new == {[o EXCEPT !.spent = TRUE, !.spent_by_tx = Holds(spentByTx),
                        !.spent_by_index = Holds(spentByIndex)] : o \in hit}
  IN  [txn[p] EXCEPT
         !.lockedOut = @ \cup {Key(o) : o \in hit \cap outputs},
         !.newOutputs = (@ \ hit) \cup new]

\* OutputRepository.createOutput: INSERT INTO outputs (..., spent) VALUES (..., FALSE);
\* UNIQUE(tx_id, output_index), tx_id REFERENCES transactions(id).
createOutputWaits(p, txId, index) ==
  \E q \in Others(p) :
    \/ \E o \in txn[q].newOutputs : Key(o) = <<txId, index>>
    \/ <<txId, index>> \in txn[q].lockedOut

createOutputViolates(p, txId, index) ==
  \/ \E o \in ViewOutputs(p) : Key(o) = <<txId, index>>
  \/ ~ \E t \in ViewTxs(p) : t.id = txId

createOutput(p, txId, index, output) ==
  [txn[p] EXCEPT !.newOutputs = @ \cup {OutputRow(txId, index, output)}]

\* OutputRepository.unspendOutputsByTransaction:
\* UPDATE outputs SET spent = FALSE, spent_by_tx = NULL, spent_by_index = NULL
\*   WHERE spent_by_tx = $1.
\* Mutant: the UPDATE selects by tx_id instead of spent_by_tx.
unspendRows_ByTxId(p, txId) == {o \in ViewOutputs(p) : o.tx_id = txId}

unspendRows(p, txId) == {o \in ViewOutputs(p) : o.spent_by_tx = Holds(txId)}

unspendOutputsByTransactionWaits(p, txId) ==
  \E o \in unspendRows(p, txId) : o \in outputs /\ OutputLockedByOther(p, Key(o))

\* Mutant: the UPDATE resets the flag and leaves the spender reference.
unspendOutputsByTransaction_KeepsSpender(p, txId) ==
  LET hit == unspendRows(p, txId)
      new == {[o EXCEPT !.spent = FALSE] : o \in hit}
  IN  [txn[p] EXCEPT
         !.lockedOut = @ \cup {Key(o) : o \in hit \cap outputs},
         !.newOutputs = (@ \ hit) \cup new]

unspendOutputsByTransaction(p, txId) ==
  LET hit == unspendRows(p, txId)
      new == {[o EXCEPT !.spent = FALSE, !.spent_by_tx = SqlNull,
                        !.spent_by_index = SqlNull] : o \in hit}
  IN  [txn[p] EXCEPT
         !.lockedOut = @ \cup {Key(o) : o \in hit \cap outputs},
         !.newOutputs = (@ \ hit) \cup new]

\* BlockRepository.getBlocksAboveHeight:
\* SELECT id FROM blocks WHERE height > $1 ORDER BY height DESC.
RECURSIVE OrderByHeightDesc(_)
OrderByHeightDesc(rows) ==
  IF rows = {} THEN <<>>
  ELSE LET top == CHOOSE b \in rows : \A c \in rows : c.height <= b.height
       IN  <<top.id>> \o OrderByHeightDesc(rows \ {top})

getBlocksAboveHeight(p, height) ==
  OrderByHeightDesc({b \in ViewBlocks(p) : b.height > height})

\* TransactionRepository.getTransactionsByBlockId:
\* SELECT id FROM transactions WHERE block_id = $1 (no ORDER BY: a set).
getTransactionsByBlockId(p, blockId) ==
  {t.id : t \in {u \in ViewTxs(p) : u.block_id = blockId}}

\* BlockRepository.deleteBlocksAboveHeight: DELETE FROM blocks WHERE height > $1.
\* The rows the statement's snapshot selects ...
\* Mutant: the DELETE takes the target height with it (height >= $1).
deleteBlocksAboveHeightRows_AtOrAbove(p, height) ==
  {b.id : b \in {c \in ViewBlocks(p) : c.height >= height}}

deleteBlocksAboveHeightRows(p, height) ==
  {b.id : b \in {c \in ViewBlocks(p) : c.height > height}}

\* Mutant: the delete of a block leaves its transactions.
CascadeTxs_Stops(p, ids) == {}

\* ... and the rows ON DELETE CASCADE removes with them (migrations.ts): the
\* transactions of those blocks and the outputs of those transactions, as
\* they stand when the delete runs.
CascadeTxs(p, ids) == {t.id : t \in {u \in ViewTxs(p) : u.block_id \in ids}}

\* Mutant: the delete cascades to the transactions and stops there.
CascadeOutputs_Stops(p, ids) == {}

CascadeOutputs(p, ids) ==
  {o \in ViewOutputs(p) : o.tx_id \in CascadeTxs(p, ids)}

deleteBlocksAboveHeightWaits(p, ids) ==
  \/ \E id \in ids : BlockLockedByOther(p, id)
  \/ \E id \in CascadeTxs(p, ids) : TxLockedByOther(p, id)
  \/ \E o \in CascadeOutputs(p, ids) : o \in outputs /\ OutputLockedByOther(p, Key(o))

deleteBlocksAboveHeight(p, ids) ==
  LET live  == {b.id : b \in {c \in ViewBlocks(p) : c.id \in ids}}
      txs   == CascadeTxs(p, live)
      outs  == CascadeOutputs(p, live)
  IN  [txn[p] EXCEPT
         !.delBlocks = @ \cup {b.id : b \in {c \in blocks : c.id \in live}},
         !.insBlocks = {b \in @ : b.id \notin live},
         !.delTxs = @ \cup {t.id : t \in {u \in transactions : u.id \in txs}},
         !.insTxs = {t \in @ : t.id \notin txs},
         !.lockedOut = @ \cup {Key(o) : o \in outs \cap outputs},
         !.newOutputs = @ \ outs]

\* COMMIT: the write set becomes the committed state, atomically.
CommitBlocks(p) == ViewBlocks(p)

CommitTxs(p) == ViewTxs(p)

CommitOutputs(p) == ViewOutputs(p)

----------------------------------------------------------------------------
(* The admission rules of the ledger, read off the committed tables *)

\* The committed output an input names, if any.
Referenced(input) ==
  {o \in outputs : o.tx_id = input.txId /\ o.output_index = input.index}

RECURSIVE ReferencedValues(_)
ReferencedValues(ins) ==
  IF ins = <<>> THEN 0
  ELSE SumValues(Referenced(Head(ins))) + ReferencedValues(Tail(ins))

\* Height, identity, input validity and value conservation, all against the
\* committed ledger of the current state.
MeetsAdmissionRules(block) ==
  LET ins == FlatInputs(block.transactions)
  IN  /\ block.height = getCurrentHeight + 1
      /\ block.id = calculateBlockHash(block.height, TxIdsOf(block))
      /\ \A k \in 1..Len(ins) : \E o \in Referenced(ins[k]) : ~ o.spent
      /\ \/ block.height = 1
         \/ Abs(ReferencedValues(ins) - SumSeq(FlatOutputValues(block.transactions)))
              <= Tolerance

----------------------------------------------------------------------------
(* History of admissions *)

\* The transaction ids whose removal by a rollback is recorded.
WatchedIds == {"t2"}

NoEntry == [block |-> EmptyBlock(0), before |-> {}, kept |-> FALSE]

\* A block a rollback removed: the outputs table it had been committed onto
\* and the one its admission had left.
NoGone == [block |-> EmptyBlock(0), before |-> {}, after |-> {}, kept |-> FALSE]

\* Nothing recorded, and nothing to be recorded.
NoHistory ==
  [on |-> FALSE, at |-> [h \in 1..SeqMaxHeight |-> NoEntry], retired |-> {},
   replay |-> FALSE, gone |-> [h \in 1..SeqMaxHeight |-> NoGone]]

\* The history after the COMMIT of p: an admitted block is entered at its
\* height with the outputs table it was committed onto; a rollback drops the
\* entries above its target and retires the transaction ids it removes.
\* Where re-admissions are followed, a rollback also keeps the blocks it
\* removes; the admission of such a block at its height takes it off that
\* list, and the admission of any other block empties the list.
Recorded(p) ==
  IF ~ hist.on THEN hist
  ELSE IF req[p].op = "processBlock"
  THEN [hist EXCEPT
          !.at[req[p].block.height] =
            [block |-> req[p].block, before |-> outputs, kept |-> TRUE],
          !.gone = IF ~ hist.replay THEN @
                   ELSE IF @[req[p].block.height].kept
                           /\ @[req[p].block.height].block = req[p].block
                   THEN [@ EXCEPT ![req[p].block.height] = NoGone]
                   ELSE [h \in 1..SeqMaxHeight |-> NoGone]]
  ELSE [hist EXCEPT
          !.at = [h \in 1..SeqMaxHeight |-> IF h > req[p].height THEN NoEntry ELSE @[h]],
          !.retired = @ \cup (({t.id : t \in transactions}
                                 \ {t.id : t \in CommitTxs(p)}) \cap WatchedIds),
          !.gone = IF ~ hist.replay THEN @
                   ELSE [h \in 1..SeqMaxHeight |->
                           IF h > req[p].height /\ hist.at[h].kept
                           THEN [block |-> hist.at[h].block,
                                 before |-> hist.at[h].before,
                                 after |-> IF h < SeqMaxHeight /\ hist.at[h + 1].kept
                                           THEN hist.at[h + 1].before
                                           ELSE outputs,
                                 kept |-> TRUE]
                           ELSE @[h]]]

----------------------------------------------------------------------------
(* Handlers *)

LocInit ==
  [k |-> 0, ti |-> 0, ii |-> 0, oi |-> 0,
   totalInputValue |-> 0, blocksToDelete |-> <<>>, txsToUnspend |-> {},
   victims |-> {}, error |-> NoError, returned |-> NoIndex]

NoRequest == [op |-> "none"]

Requests(maxH) ==
  [op : {"processBlock"}, block : BlockPool(maxH)]
    \cup [op : {"rollback"}, height : RollbackTargets(maxH)]
    \cup [op : {"getBalance"}, address : Addresses]
    \cup [op : {"getCurrentHeight"}]

ProbeRequests(maxH) ==
  [op : {"processBlock"}, block : ProbePool(maxH)]
    \cup [op : {"rollback"}, height : ProbeTargets(maxH)]
    \cup [op : {"getBalance"}, address : Addresses]
    \cup [op : {"getCurrentHeight"}]

FirstAwait(r) ==
  CASE r.op = "processBlock" -> "pb_height"
    [] r.op = "rollback" -> "rb_height"
    [] r.op = "getBalance" -> "q_balance"
    [] r.op = "getCurrentHeight" -> "q_height"

\* --- db/connection.ts ---

\* const maxRetries = 30
maxRetries == 30

\* let pool: Pool, before any assignment.
NoPool == [made |-> FALSE, probed |-> FALSE]

\* new Pool({...}): no query has been sent on it.
NewPool == [made |-> TRUE, probed |-> FALSE]

\* The pool createServer hands to the service when initializeDatabase
\* returned it after a query that succeeded.
ReadyPool == [made |-> TRUE, probed |-> TRUE]

\* A call of initializeDatabase that has not been made.
BootIdle == [pc |-> "idle", retries |-> 0, probes |-> 0, returned |-> NoPool]

\* The tables after runMigrations, and no request in the server.
InitTables ==
  /\ blocks = {}
  /\ transactions = {}
  /\ outputs = {}
  /\ txn = [p \in Procs |-> NoTxn]
  /\ pc = [p \in Procs |-> "idle"]
  /\ req = [p \in Procs |-> NoRequest]
  /\ loc = [p \in Procs |-> LocInit]
  /\ result = [p \in Procs |-> NoReply]
  /\ conn = [p \in Procs |-> 0]
  /\ admissible = [p \in Procs |-> FALSE]

\* The server as createServer starts it: initializeDatabase has returned.
InitStore ==
  InitTables /\ pool = ReadyPool /\ boot = [c \in Callers |-> BootIdle]

Init == InitStore /\ hist = NoHistory

\* What a handler throws before its first await: POST /blocks passes
\* request.body to BlockValidator.validateBlockSchema, and GET
\* /balance/:address requires an address.
ThrownOnArrival(r) ==
  CASE r.op = "processBlock" -> validateBlockSchema(JsBlock(r.block))
    [] r.op = "getBalance" /\ r.address = "" ->
         AppError("Address parameter is required", 400)
    [] OTHER -> NoError

\* A request out of R arrives and its handler runs up to its first await, or
\* to the reply of handleError when it throws before: the service is not
\* called then.
Accept(p, R) ==
  /\ pc[p] = "idle"
  /\ \E r \in R :
       /\ req' = [req EXCEPT ![p] = r]
       /\ IF ThrownOnArrival(r) # NoError
          THEN /\ pc' = [pc EXCEPT ![p] = "done"]
               /\ result' = [result EXCEPT ![p] = handleError(ThrownOnArrival(r))]
               /\ admissible' = [admissible EXCEPT ![p] = FALSE]
          ELSE /\ pc' = [pc EXCEPT ![p] = FirstAwait(r)]
               /\ result' = [result EXCEPT ![p] = NoReply]
               /\ admissible' = [admissible EXCEPT ![p] =
                                   r.op = "processBlock" /\ MeetsAdmissionRules(r.block)]
  /\ loc' = [loc EXCEPT ![p] = LocInit]
  /\ UNCHANGED <<blocks, transactions, outputs, txn, conn, hist, pool, boot>>

Start(p, maxH) == Accept(p, Requests(maxH))

\* The handler sends its reply: reply.status(200).send or handleError.
Reply(p, r) ==
  /\ pc' = [pc EXCEPT ![p] = "done"]
  /\ result' = [result EXCEPT ![p] = r]
  /\ loc' = [loc EXCEPT ![p] = LocInit]

\* The reply of a service call that returned (error = NoError) or threw.
Outcome(p, error) ==
  IF error = NoError
  THEN Success(IF req[p].op = "processBlock" THEN req[p].block.height
               ELSE req[p].height)
  ELSE handleError(error)

\* The reply has gone out; the handler's frame is dropped.
Return(p) ==
  /\ pc[p] = "done"
  /\ pc' = [pc EXCEPT ![p] = "idle"]
  /\ req' = [req EXCEPT ![p] = NoRequest]
  /\ result' = [result EXCEPT ![p] = NoReply]
  /\ admissible' = [admissible EXCEPT ![p] = FALSE]
  /\ UNCHANGED <<blocks, transactions, outputs, txn, loc, conn, hist, pool, boot>>

\* --- validateBlock / validateTransactionBalances ---

\* Mutant: the height check accepts any height above the current one.
HeightCheck_AtLeast(block, currentHeight) == block.height >= currentHeight + 1

HeightCheck(block, currentHeight) == block.height = currentHeight + 1

\* Mutant: the id may digest the transaction ids in either order.
HashCheck_EitherOrder(block) ==
  LET ids == TxIdsOf(block)
      rev == [k \in 1..Len(ids) |-> ids[Len(ids) + 1 - k]]
  IN  block.id \in {calculateBlockHash(block.height, ids),
                    calculateBlockHash(block.height, rev)}

HashCheck(block) ==
  block.id = calculateBlockHash(block.height, TxIdsOf(block))

\* Mutant: the conservation test refusing a block that carries no value.
ValueMismatch_NeedsValue(block, totalInputValue) ==
  /\ block.height > 1
  /\ \/ Abs(totalInputValue - SumSeq(FlatOutputValues(block.transactions))) > Tolerance
     \/ SumSeq(FlatOutputValues(block.transactions)) = 0

\* Mutant: the conservation test with twice the tolerance.
ValueMismatch_TwiceTolerance(block, totalInputValue) ==
  /\ block.height > 1
  /\ Abs(totalInputValue - SumSeq(FlatOutputValues(block.transactions)))
       > 2 * Tolerance

\* Mutant: the conservation test without the exemption of height 1.
ValueMismatch_NoExemption(block, totalInputValue) ==
  Abs(totalInputValue - SumSeq(FlatOutputValues(block.transactions))) > Tolerance

\* Mutant: the conservation test without Math.abs.
ValueMismatch_NoAbs(block, totalInputValue) ==
  /\ block.height > 1
  /\ totalInputValue - SumSeq(FlatOutputValues(block.transactions)) > Tolerance

\* The conservation test that ends validateTransactionBalances:
\* block.height > 1 && Math.abs(totalInputValue - totalOutputValue) > 0.000001.
ValueMismatch(block, totalInputValue) ==
  /\ block.height > 1
  /\ Abs(totalInputValue - SumSeq(FlatOutputValues(block.transactions))) > Tolerance

\* What validateTransactionBalances does once its input loop is over.
AfterInputs(p, block, totalInputValue) ==
  IF ValueMismatch(block, totalInputValue)
  THEN Reply(p, handleError(
         ValidationError("Input/Output value mismatch", "VALUE_MISMATCH")))
  ELSE /\ pc' = [pc EXCEPT ![p] = "pb_connect"]
       /\ loc' = [loc EXCEPT ![p] = LocInit]
       /\ UNCHANGED result

\* Mutant: the id is checked before the height.
ValidateBlock_IdFirst(p) ==
  /\ pc[p] = "pb_height"
  /\ LET block == req[p].block
         currentHeight == getCurrentHeight
     IN  IF ~ HashCheck(block)
         THEN Reply(p, handleError(
                ValidationError("Invalid block ID", "INVALID_BLOCK_ID")))
         ELSE IF ~ HeightCheck(block, currentHeight)
         THEN Reply(p, handleError(ValidationError("Invalid height", "INVALID_HEIGHT")))
         ELSE IF FlatInputs(block.transactions) = <<>>
         THEN AfterInputs(p, block, 0)
         ELSE /\ pc' = [pc EXCEPT ![p] = "pb_getOutput"]
              /\ loc' = [loc EXCEPT ![p].k = 1]
              /\ UNCHANGED result
  /\ UNCHANGED <<blocks, transactions, outputs, txn, req, conn, admissible, hist, pool, boot>>

\* validateBlock up to the first getOutput: the height read, the height and
\* hash checks, and, for a block without inputs, the whole balance check.
ValidateBlock(p) ==
  /\ pc[p] = "pb_height"
  /\ LET block == req[p].block
         currentHeight == getCurrentHeight
     IN  IF ~ HeightCheck(block, currentHeight)
         THEN Reply(p, handleError(ValidationError("Invalid height", "INVALID_HEIGHT")))
         ELSE IF ~ HashCheck(block)
         THEN Reply(p, handleError(
                ValidationError("Invalid block ID", "INVALID_BLOCK_ID")))
         ELSE IF FlatInputs(block.transactions) = <<>>
         THEN AfterInputs(p, block, 0)
         ELSE /\ pc' = [pc EXCEPT ![p] = "pb_getOutput"]
              /\ loc' = [loc EXCEPT ![p].k = 1]
              /\ UNCHANGED result
  /\ UNCHANGED <<blocks, transactions, outputs, txn, req, conn, admissible, hist, pool, boot>>

\* Mutant: the inputs are looked up among the outputs the block itself
\* creates as well.
ValidateInput_SeesBlock(p) ==
  /\ pc[p] = "pb_getOutput"
  /\ LET block == req[p].block
         ins   == FlatInputs(block.transactions)
         input == ins[loc[p].k]
         own   == {OutputRow(block.transactions[j].id, i - 1,
                             block.transactions[j].outputs[i]) :
                     <<j, i>> \in {ji \in (1..Len(block.transactions)) \X (1..4) :
                                    ji[2] <= Len(block.transactions[ji[1]].outputs)}}
         found == getOutput(input.txId, input.index)
                    \cup {o \in own : o.tx_id = input.txId
                                        /\ o.output_index = input.index}
     IN  IF found = {}
         THEN Reply(p, handleError(
                ValidationError("Input references non-existent output", "INVALID_INPUT")))
         ELSE LET output == CHOOSE o \in found : TRUE
                  total  == loc[p].totalInputValue + output.value
              IN  IF output.spent
                  THEN Reply(p, handleError(
                         ConflictError("Output already spent", "DOUBLE_SPEND")))
                  ELSE IF loc[p].k = Len(ins)
                  THEN AfterInputs(p, block, total)
                  ELSE /\ loc' = [loc EXCEPT ![p].k = @ + 1,
                                             ![p].totalInputValue = total]
                       /\ UNCHANGED <<pc, result>>
  /\ UNCHANGED <<blocks, transactions, outputs, txn, req, conn, admissible, hist, pool, boot>>

\* Mutant: an input naming no stored output is passed over.
ValidateInput_SkipsMissing(p) ==
  /\ pc[p] = "pb_getOutput"
  /\ LET block == req[p].block
         ins   == FlatInputs(block.transactions)
         input == ins[loc[p].k]
         found == getOutput(input.txId, input.index)
         spent == found # {} /\ (CHOOSE o \in found : TRUE).spent
         total == loc[p].totalInputValue + SumValues(found)
     IN  IF spent
         THEN Reply(p, handleError(
                ConflictError("Output already spent", "DOUBLE_SPEND")))
         ELSE IF loc[p].k = Len(ins)
         THEN AfterInputs(p, block, total)
         ELSE /\ loc' = [loc EXCEPT ![p].k = @ + 1, ![p].totalInputValue = total]
              /\ UNCHANGED <<pc, result>>
  /\ UNCHANGED <<blocks, transactions, outputs, txn, req, conn, admissible, hist, pool, boot>>

\* One turn of the input loop of validateTransactionBalances.
ValidateInput(p) ==
  /\ pc[p] = "pb_getOutput"
  /\ LET block == req[p].block
         ins   == FlatInputs(block.transactions)
         input == ins[loc[p].k]
         found == getOutput(input.txId, input.index)
     IN  IF found = {}
         THEN Reply(p, handleError(
                ValidationError("Input references non-existent output", "INVALID_INPUT")))
         ELSE LET output == CHOOSE o \in found : TRUE
                  total  == loc[p].totalInputValue + output.value
              IN  IF output.spent
                  THEN Reply(p, handleError(
                         ConflictError("Output already spent", "DOUBLE_SPEND")))
                  ELSE IF loc[p].k = Len(ins)
                  THEN AfterInputs(p, block, total)
                  ELSE /\ loc' = [loc EXCEPT ![p].k = @ + 1,
                                             ![p].totalInputValue = total]
                       /\ UNCHANGED <<pc, result>>
  /\ UNCHANGED <<blocks, transactions, outputs, txn, req, conn, admissible, hist, pool, boot>>

\* --- the transaction of processBlock and rollback ---

\* const client = await this.pool.connect()
Connect(p) ==
  /\ pc[p] \in {"pb_connect", "rb_connect"}
  /\ conn' = [conn EXCEPT ![p] = @ + 1]
  /\ pc' = [pc EXCEPT ![p] = IF pc[p] = "pb_connect" THEN "pb_begin" ELSE "rb_begin"]
  /\ UNCHANGED <<blocks, transactions, outputs, txn, req, loc, result, admissible, hist, pool, boot>>

\* await client.query('BEGIN')
Begin(p) ==
  /\ pc[p] \in {"pb_begin", "rb_begin"}
  /\ txn' = [txn EXCEPT ![p] = [NoTxn EXCEPT !.open = TRUE]]
  /\ pc' = [pc EXCEPT ![p] = IF pc[p] = "pb_begin" THEN "pb_createBlock"
                             ELSE "rb_getBlocks"]
  /\ UNCHANGED <<blocks, transactions, outputs, req, loc, result, conn, admissible, hist, pool, boot>>

\* A statement inside the try block threw: control is in the catch block,
\* about to issue ROLLBACK.
Throw(p, error) ==
  /\ pc' = [pc EXCEPT ![p] = "abort"]
  /\ loc' = [loc EXCEPT ![p].error = error]

\* Where processTransaction goes after finishing input ii / output oi of
\* transaction ti (0 = nothing done yet in that loop).
NextOfTx(block, ti, ii, oi) ==
  LET tx == block.transactions[ti]
  IN  IF oi = 0 /\ ii < Len(tx.inputs)
      THEN [pc |-> "pb_mark", ti |-> ti, ii |-> ii + 1, oi |-> 0]
      ELSE IF oi < Len(tx.outputs)
      THEN [pc |-> "pb_out", ti |-> ti, ii |-> ii, oi |-> oi + 1]
      ELSE IF ti < Len(block.transactions)
      THEN [pc |-> "pb_createTx", ti |-> ti + 1, ii |-> 0, oi |-> 0]
      ELSE [pc |-> "pb_commit", ti |-> ti, ii |-> ii, oi |-> oi]

Goto(p, n) ==
  /\ pc' = [pc EXCEPT ![p] = n.pc]
  /\ loc' = [loc EXCEPT ![p].ti = n.ti, ![p].ii = n.ii, ![p].oi = n.oi]

\* await this.blockRepo.createBlock(client, block)
CreateBlock(p) ==
  /\ pc[p] = "pb_createBlock"
  /\ ~ createBlockWaits(p, req[p].block)
  /\ IF createBlockViolates(p, req[p].block)
     THEN /\ Throw(p, PlainError("duplicate key value violates unique constraint"))
          /\ UNCHANGED txn
     ELSE /\ txn' = [txn EXCEPT ![p] = createBlock(p, req[p].block)]
          /\ IF req[p].block.transactions = <<>>
             THEN Goto(p, [pc |-> "pb_commit", ti |-> 0, ii |-> 0, oi |-> 0])
             ELSE Goto(p, [pc |-> "pb_createTx", ti |-> 1, ii |-> 0, oi |-> 0])
  /\ UNCHANGED <<blocks, transactions, outputs, req, result, conn, admissible, hist, pool, boot>>

\* await this.txRepo.createTransaction(client, tx, blockId)
CreateTransaction(p) ==
  /\ pc[p] = "pb_createTx"
  /\ LET block == req[p].block
         tx    == block.transactions[loc[p].ti]
     IN  /\ ~ createTransactionWaits(p, tx)
         /\ IF createTransactionViolates(p, tx, block.id)
            THEN /\ Throw(p, PlainError("duplicate key value violates unique constraint"))
                 /\ UNCHANGED txn
            ELSE /\ txn' = [txn EXCEPT ![p] = createTransaction(p, tx, block.id)]
                 /\ Goto(p, NextOfTx(block, loc[p].ti, 0, 0))
  /\ UNCHANGED <<blocks, transactions, outputs, req, result, conn, admissible, hist, pool, boot>>

\* Mutant: an UPDATE that matches no row is passed over.
MarkOutputAsSpent_IgnoresZeroRows(p) ==
  /\ pc[p] = "pb_mark"
  /\ LET block == req[p].block
         tx    == block.transactions[loc[p].ti]
         input == tx.inputs[loc[p].ii]
     IN  /\ ~ markOutputAsSpentWaits(p, input.txId, input.index)
         /\ txn' = [txn EXCEPT ![p] =
               markOutputAsSpent(p, input.txId, input.index, tx.id, loc[p].ii - 1)]
         /\ Goto(p, NextOfTx(block, loc[p].ti, loc[p].ii, 0))
  /\ UNCHANGED <<blocks, transactions, outputs, req, result, conn, admissible, hist, pool, boot>>

\* await this.outputRepo.markOutputAsSpent(client, input.txId, input.index, tx.id, i)
MarkOutputAsSpent(p) ==
  /\ pc[p] = "pb_mark"
  /\ LET block == req[p].block
         tx    == block.transactions[loc[p].ti]
         input == tx.inputs[loc[p].ii]
     IN  /\ ~ markOutputAsSpentWaits(p, input.txId, input.index)
         /\ IF markOutputAsSpentRowCount(p, input.txId, input.index) = 0
            THEN /\ Throw(p, PlainError("Output not found or already spent"))
                 /\ UNCHANGED txn
            ELSE /\ txn' = [txn EXCEPT ![p] =
                      markOutputAsSpent(p, input.txId, input.index, tx.id, loc[p].ii - 1)]
                 /\ Goto(p, NextOfTx(block, loc[p].ti, loc[p].ii, 0))
  /\ UNCHANGED <<blocks, transactions, outputs, req, result, conn, admissible, hist, pool, boot>>

\* await this.outputRepo.createOutput(client, tx.id, i, tx.outputs[i])
CreateOutput(p) ==
  /\ pc[p] = "pb_out"
  /\ LET block == req[p].block
         tx    == block.transactions[loc[p].ti]
         index == loc[p].oi - 1
     IN  /\ ~ createOutputWaits(p, tx.id, index)
         /\ IF createOutputViolates(p, tx.id, index)
            THEN /\ Throw(p, PlainError("duplicate key value violates unique constraint"))
                 /\ UNCHANGED txn
            ELSE /\ txn' = [txn EXCEPT ![p] =
                      createOutput(p, tx.id, index, tx.outputs[loc[p].oi])]
                 /\ Goto(p, NextOfTx(block, loc[p].ti, loc[p].ii, loc[p].oi))
  /\ UNCHANGED <<blocks, transactions, outputs, req, result, conn, admissible, hist, pool, boot>>

\* await client.query('COMMIT'), then finally { client.release() } and the reply.
Commit(p) ==
  /\ pc[p] \in {"pb_commit", "rb_commit"}
  /\ blocks' = CommitBlocks(p)
  /\ transactions' = CommitTxs(p)
  /\ outputs' = CommitOutputs(p)
  /\ txn' = [txn EXCEPT ![p] = NoTxn]
  /\ conn' = [conn EXCEPT ![p] = @ - 1]
  /\ Reply(p, Outcome(p, NoError))
  /\ hist' = Recorded(p)
  /\ UNCHANGED <<req, admissible, pool, boot>>

\* Mutant: the catch block ends the transaction with COMMIT.
Abort_Commits(p) ==
  /\ pc[p] = "abort"
  /\ blocks' = CommitBlocks(p)
  /\ transactions' = CommitTxs(p)
  /\ outputs' = CommitOutputs(p)
  /\ txn' = [txn EXCEPT ![p] = NoTxn]
  /\ conn' = [conn EXCEPT ![p] = @ - 1]
  /\ Reply(p, Outcome(p, loc[p].error))
  /\ UNCHANGED <<req, admissible, hist, pool, boot>>

\* catch: await client.query('ROLLBACK'); throw error; finally release; reply.
Abort(p) ==
  /\ pc[p] = "abort"
  /\ txn' = [txn EXCEPT ![p] = NoTxn]
  /\ conn' = [conn EXCEPT ![p] = @ - 1]
  /\ Reply(p, Outcome(p, loc[p].error))
  /\ UNCHANGED <<blocks, transactions, outputs, req, admissible, hist, pool, boot>>

\* --- rollback ---

\* Mutant: a target one above the current height is let through.
FutureHeight_OffByOne(targetHeight, currentHeight) ==
  targetHeight > currentHeight + 1

FutureHeight(targetHeight, currentHeight) == targetHeight > currentHeight

\* Mutant: a rollback that would remove no block is refused as well.
ExcessiveRollback_OrNothing(targetHeight, currentHeight) ==
  \/ currentHeight - targetHeight > maxRollbackBlocks
  \/ currentHeight = targetHeight

\* Mutant: a rollback of exactly the maximum depth is refused.
ExcessiveRollback_AtLimit(targetHeight, currentHeight) ==
  currentHeight - targetHeight >= maxRollbackBlocks

ExcessiveRollback(targetHeight, currentHeight) ==
  currentHeight - targetHeight > maxRollbackBlocks

\* rollback up to pool.connect(): the height read and the three checks.
ValidateRollback(p) ==
  /\ pc[p] = "rb_height"
  /\ LET targetHeight == req[p].height
         currentHeight == getCurrentHeight
     IN  IF targetHeight < 0
         THEN Reply(p, handleError(
                ValidationError("Invalid height parameter", "INVALID_HEIGHT")))
         ELSE IF FutureHeight(targetHeight, currentHeight)
         THEN Reply(p, handleError(
                ValidationError("Cannot rollback to future height", "FUTURE_HEIGHT")))
         ELSE IF ExcessiveRollback(targetHeight, currentHeight)
         THEN Reply(p, handleError(
                ValidationError("Cannot rollback more than max blocks",
                                "EXCESSIVE_ROLLBACK")))
         ELSE /\ pc' = [pc EXCEPT ![p] = "rb_connect"]
              /\ UNCHANGED <<loc, result>>
  /\ UNCHANGED <<blocks, transactions, outputs, txn, req, conn, admissible, hist, pool, boot>>

\* Where the unspend loops go next.
NextOfUnspend(blocksToDelete, txsToUnspend) ==
  IF txsToUnspend # {} THEN "rb_unspend"
  ELSE IF blocksToDelete # <<>> THEN "rb_getTxs"
  ELSE "rb_delete"

\* const blocksToDelete = await this.blockRepo.getBlocksAboveHeight(client, targetHeight)
GetBlocksAboveHeight(p) ==
  /\ pc[p] = "rb_getBlocks"
  /\ LET found == getBlocksAboveHeight(p, req[p].height)
     IN  /\ loc' = [loc EXCEPT ![p].blocksToDelete = found]
         /\ pc' = [pc EXCEPT ![p] = NextOfUnspend(found, {})]
  /\ UNCHANGED <<blocks, transactions, outputs, txn, req, result, conn, admissible, hist, pool, boot>>

\* const transactions = await this.txRepo.getTransactionsByBlockId(client, block.id)
GetTransactionsByBlockId(p) ==
  /\ pc[p] = "rb_getTxs"
  /\ LET found == getTransactionsByBlockId(p, Head(loc[p].blocksToDelete))
         rest  == Tail(loc[p].blocksToDelete)
     IN  /\ loc' = [loc EXCEPT ![p].blocksToDelete = rest, ![p].txsToUnspend = found]
         /\ pc' = [pc EXCEPT ![p] = NextOfUnspend(rest, found)]
  /\ UNCHANGED <<blocks, transactions, outputs, txn, req, result, conn, admissible, hist, pool, boot>>

\* await this.outputRepo.unspendOutputsByTransaction(client, tx.id), for one of
\* the selected transactions (the SELECT fixes no order).
UnspendOutputsByTransaction(p) ==
  /\ pc[p] = "rb_unspend"
  /\ \E id \in loc[p].txsToUnspend :
       /\ ~ unspendOutputsByTransactionWaits(p, id)
       /\ txn' = [txn EXCEPT ![p] = unspendOutputsByTransaction(p, id)]
       /\ loc' = [loc EXCEPT ![p].txsToUnspend = @ \ {id}]
       /\ pc' = [pc EXCEPT ![p] =
                   NextOfUnspend(loc[p].blocksToDelete, loc[p].txsToUnspend \ {id})]
  /\ UNCHANGED <<blocks, transactions, outputs, req, result, conn, admissible, hist, pool, boot>>

\* await this.blockRepo.deleteBlocksAboveHeight(client, targetHeight): the
\* statement takes its snapshot and selects the block rows to delete ...
DeleteScan(p) ==
  /\ pc[p] = "rb_delete"
  /\ loc' = [loc EXCEPT ![p].victims = deleteBlocksAboveHeightRows(p, req[p].height)]
  /\ pc' = [pc EXCEPT ![p] = "rb_cascade"]
  /\ UNCHANGED <<blocks, transactions, outputs, txn, req, result, conn, admissible, hist, pool, boot>>

\* ... and deletes them with everything that cascades, once no other open
\* transaction holds a row it needs.
DeleteCascade(p) ==
  /\ pc[p] = "rb_cascade"
  /\ ~ deleteBlocksAboveHeightWaits(p, loc[p].victims)
  /\ txn' = [txn EXCEPT ![p] = deleteBlocksAboveHeight(p, loc[p].victims)]
  /\ loc' = [loc EXCEPT ![p].victims = {}]
  /\ pc' = [pc EXCEPT ![p] = "rb_commit"]
  /\ UNCHANGED <<blocks, transactions, outputs, req, result, conn, admissible, hist, pool, boot>>

\* --- queries ---

\* GET /balance/:address
GetBalance(p) ==
  /\ pc[p] = "q_balance"
  /\ Reply(p, Success(getBalanceForAddress(req[p].address)))
  /\ UNCHANGED <<blocks, transactions, outputs, txn, req, conn, admissible, hist, pool, boot>>

\* GET /
GetCurrentHeight(p) ==
  /\ pc[p] = "q_height"
  /\ Reply(p, Success(getCurrentHeight))
  /\ UNCHANGED <<blocks, transactions, outputs, txn, req, conn, admissible, hist, pool, boot>>

\* --- failures of the store ---

PoolSteps == {"pb_height", "pb_getOutput", "rb_height", "q_balance", "q_height",
              "pb_connect", "rb_connect"}

TrySteps == {"pb_begin", "pb_createBlock", "pb_createTx", "pb_mark", "pb_out",
             "pb_commit", "rb_begin", "rb_getBlocks", "rb_getTxs", "rb_unspend",
             "rb_delete", "rb_cascade", "rb_commit"}

StoreError == PlainError("store failure")

\* A query on the pool, or pool.connect(), rejects: the error leaves the
\* service before any client is held.  The handlers of POST /blocks,
\* GET /balance and POST /rollback catch it and call handleError; the
\* handler of GET / has no try, and the error leaves it.
PoolFails(p) ==
  /\ pc[p] \in PoolSteps
  /\ Reply(p, IF pc[p] = "q_height" THEN Unhandled(StoreError)
                                   ELSE handleError(StoreError))
  /\ UNCHANGED <<blocks, transactions, outputs, txn, req, conn, admissible, hist, pool, boot>>

\* A statement inside the try block rejects (connection lost, deadlock or
\* lock timeout, statement timeout): nothing of it is applied.
StatementFails(p) ==
  /\ pc[p] \in TrySteps
  /\ Throw(p, StoreError)
  /\ UNCHANGED <<blocks, transactions, outputs, txn, req, result, conn, admissible, hist, pool, boot>>

\* Mutant: the client is released in the catch block after ROLLBACK instead
\* of in finally, so a rejected ROLLBACK skips the release.
AbortFails_KeepsClient(p) ==
  /\ pc[p] = "abort"
  /\ txn' = [txn EXCEPT ![p] = NoTxn]
  /\ Reply(p, handleError(StoreError))
  /\ UNCHANGED <<blocks, transactions, outputs, req, conn, admissible, hist, pool, boot>>

\* ROLLBACK itself rejects: its error replaces the first one, finally still
\* releases the client, and the store drops the transaction with the session.
AbortFails(p) ==
  /\ pc[p] = "abort"
  /\ txn' = [txn EXCEPT ![p] = NoTxn]
  /\ conn' = [conn EXCEPT ![p] = @ - 1]
  /\ Reply(p, handleError(StoreError))
  /\ UNCHANGED <<blocks, transactions, outputs, req, admissible, hist, pool, boot>>

----------------------------------------------------------------------------
(* Specifications *)

Step(p) ==
  \/ ValidateBlock(p)
  \/ ValidateInput(p)
  \/ Connect(p)
  \/ Begin(p)
  \/ CreateBlock(p)
  \/ CreateTransaction(p)
  \/ MarkOutputAsSpent(p)
  \/ CreateOutput(p)
  \/ Commit(p)
  \/ Abort(p)
  \/ ValidateRollback(p)
  \/ GetBlocksAboveHeight(p)
  \/ GetTransactionsByBlockId(p)
  \/ UnspendOutputsByTransaction(p)
  \/ DeleteScan(p)
  \/ DeleteCascade(p)
  \/ GetBalance(p)
  \/ GetCurrentHeight(p)
  \/ PoolFails(p)
  \/ StatementFails(p)
  \/ AbortFails(p)

\* No reply is waiting to be looked at.
NoneDone == \A p \in Procs : pc[p] # "done"

\* Requests are served concurrently.
Next == \E p \in Procs : Start(p, MaxHeight) \/ Step(p) \/ Return(p)

Spec == Init /\ [][Next]_vars

\* The store never fails: every handler step except the three failure steps.
ReliableStep(p) ==
  \/ ValidateBlock(p)
  \/ ValidateInput(p)
  \/ Connect(p)
  \/ Begin(p)
  \/ CreateBlock(p)
  \/ CreateTransaction(p)
  \/ MarkOutputAsSpent(p)
  \/ CreateOutput(p)
  \/ Commit(p)
  \/ Abort(p)

\* Block submissions racing each other on a store that does not fail.  A
\* request arrives only when no reply is waiting, so two replies that wait
\* together belong to submissions that overlapped in time.
RaceStart(p) ==
  /\ Start(p, MaxHeight)
  /\ req'[p].op = "processBlock"

RaceNext ==
  \E p \in Procs : (NoneDone /\ RaceStart(p)) \/ ReliableStep(p) \/ Return(p)

RaceSpec == Init /\ [][RaceNext]_vars

\* One request at a time: a request arrives only when no other is in flight.
AllIdle == \A p \in Procs : pc[p] = "idle"

SeqNext == \E p \in Procs : (AllIdle /\ Start(p, SeqMaxHeight)) \/ Step(p) \/ Return(p)

SeqSpec == Init /\ [][SeqNext]_vars

\* One request at a time, out of the larger set of request bodies, with the
\* history of admissions recorded.
LedgerInit == InitStore /\ hist = [NoHistory EXCEPT !.on = TRUE]

LedgerNext ==
  \E p \in Procs :
    (AllIdle /\ Accept(p, ProbeRequests(SeqMaxHeight))) \/ Step(p) \/ Return(p)

LedgerSpec == LedgerInit /\ [][LedgerNext]_vars

\* Requests out of a small set served concurrently, each handler resumed
\* whenever the await it is suspended at can settle: the event loop runs every continuation whose
\* promise has settled, and every store call either returns or rejects.
FairRequests(maxH) ==
  [op : {"processBlock"},
   block : {b \in {Genesis, Spend2a, Spend3b} : b.height <= maxH}]
    \cup [op : {"rollback"}, height : RollbackTargets(maxH)]
    \cup [op : {"getBalance"}, address : {"a1"}]
    \cup [op : {"getCurrentHeight"}]

FairNext ==
  \E p \in Procs : Accept(p, FairRequests(FairMaxHeight)) \/ Step(p) \/ Return(p)

FairSpec == Init /\ [][FairNext]_vars /\ \A p \in Procs : WF_vars(Step(p))

\* The same requests served concurrently on a ledger that can grow one block
\* past the rollback limit.
DeepNext ==
  \E p \in Procs :
    Accept(p, FairRequests(maxRollbackBlocks + 1)) \/ Step(p) \/ Return(p)

DeepSpec == Init /\ [][DeepNext]_vars

\* One request at a time, with the blocks that rollbacks remove recorded so
\* that their re-admission can be followed.
ReplayInit == InitStore /\ hist = [NoHistory EXCEPT !.on = TRUE, !.replay = TRUE]

\* Blocks that carry the id the service expects and fail the validator of
\* the route: a transaction without an id, an output without an address, an
\* input without a txId.
IllFormedBlocks ==
  {Blk(1, <<Tx("", <<>>, <<>>)>>),
   Blk(1, <<Tx("t1", <<>>, <<Out("", 50)>>)>>),
   Blk(2, <<Tx("t2", <<In("", 0)>>, <<Out("a3", 80)>>)>>)}

\* The requests of the admission checks, the block without transactions
\* submitted as the first block too, and the requests the handlers refuse.
ReplayRequests ==
  ProbeRequests(SeqMaxHeight)
    \cup [op : {"processBlock"}, block : {EmptyBlock(1)} \cup IllFormedBlocks]
    \cup [op : {"getBalance"}, address : {""}]

ReplayNext ==
  \E p \in Procs :
    (AllIdle /\ Accept(p, ReplayRequests)) \/ Step(p) \/ Return(p)

ReplaySpec == ReplayInit /\ [][ReplayNext]_vars

----------------------------------------------------------------------------
(* The bodies and the height parameters the validators are applied to *)

\* The bodies the validator is applied to: every list holds up to MaxItems
\* elements, and an element is well formed or ill formed in one place.
ListsOf(S) == UNION {[1..k -> S] : k \in 0..MaxItems}

NotAnArray == {JsUndefined, JsNull, JsString("none"), [kind |-> "object"]}

RawIds == {JsUndefined, JsString(""), JsNumber(2), JsString("x1")}

RawHeights ==
  {JsUndefined, JsString("1"), JsNaN}
    \cup {JsNumber(h) : h \in {0 - 2, 0, 1, 2, 3, 4}}

RawIndexes ==
  {JsUndefined, JsString("0"), JsNaN}
    \cup {JsNumber(h) : h \in {0 - 2, 0, 1, 2}}

RawValues ==
  {JsUndefined, JsString("5"), JsNaN}
    \cup {JsNumber(h) : h \in {0 - 2, 0, 1, 100}}

RawInputs ==
  {JsNull, JsString("t1:0"), JsArray(<<>>)}
    \cup [kind : {"object"}, txId : RawIds, index : {JsNumber(0)}]
    \cup [kind : {"object"}, txId : {JsString("t1")}, index : RawIndexes]

RawOutputs ==
  {JsNull, JsString("a1"), JsArray(<<>>)}
    \cup [kind : {"object"}, address : RawIds, value : {JsNumber(100)}]
    \cup [kind : {"object"}, address : {JsString("a1")}, value : RawValues]

RawTransactions ==
  {JsNull, JsString("t1"), JsArray(<<>>)}
    \cup [kind : {"object"}, id : RawIds,
          inputs : {JsArray(<<>>)}, outputs : {JsArray(<<>>)}]
    \cup [kind : {"object"}, id : {JsString("t2")},
          inputs : NotAnArray \cup {JsArray(l) : l \in ListsOf(RawInputs)},
          outputs : {JsArray(<<>>),
                     JsArray(<<[kind |-> "object", address |-> JsString("a1"),
                                value |-> JsNumber(100)]>>)}]
    \cup [kind : {"object"}, id : {JsString("t2")},
          inputs : {JsArray(<<>>)},
          outputs : NotAnArray \cup {JsArray(l) : l \in ListsOf(RawOutputs)}]

RawBlocks ==
  {JsUndefined, JsNull, JsString("block"), JsNumber(2), JsArray(<<>>)}
    \cup [kind : {"object"}, id : RawIds, height : RawHeights,
          transactions : {JsArray(<<>>)}]
    \cup [kind : {"object"}, id : {JsString("b1")}, height : {JsNumber(2)},
          transactions :
            NotAnArray \cup {JsArray(l) : l \in ListsOf(RawTransactions)}]

\* A string as parseInt reads it: the sequence of its UTF-16 code units.
JsChars(cs) == [kind |-> "string", chars |-> cs]

\* The value of the digit with code unit c ('0'..'9', 'a'..'z' and 'A'..'Z'
\* in either case), NoIndex where c is no digit in radix R.
DigitValue(c, R) ==
  LET d == IF c \in 48..57 THEN c - 48
           ELSE IF c \in 97..122 THEN c - 87
           ELSE IF c \in 65..90 THEN c - 55
           ELSE R
  IN IF d < R THEN d ELSE NoIndex

RECURSIVE DecimalDigits(_)
\* The decimal digits of n >= 0.
DecimalDigits(n) ==
  IF n < 10 THEN <<48 + n>>
  ELSE DecimalDigits(n \div 10) \o <<48 + (n % 10)>>

RECURSIVE StringOf(_)
RECURSIVE JoinOf(_)
\* Array.prototype.join of the elements l: null and undefined give the empty
\* string, and a comma (44) goes between two elements.
JoinOf(l) ==
  IF l = <<>> THEN <<>>
  ELSE (IF Head(l).kind \in {"null", "undefined"} THEN <<>> ELSE StringOf(Head(l)))
         \o (IF Tail(l) = <<>> THEN <<>> ELSE <<44>> \o JoinOf(Tail(l)))

\* ToString(v) of ECMAScript, as parseInt applies it to its argument.
StringOf(v) ==
  CASE v.kind = "string" -> v.chars
    [] v.kind = "number" ->
         (IF v.halves < 0 THEN <<45>> ELSE <<>>)
           \o DecimalDigits(Abs(v.halves) \div 2)
           \o (IF Abs(v.halves) % 2 = 1 THEN <<46, 53>> ELSE <<>>)
    [] v.kind = "null" -> <<110, 117, 108, 108>>
    [] v.kind = "NaN" -> <<78, 97, 78>>
    [] v.kind = "array" -> JoinOf(v.items)
    \* '[object Object]'
    [] v.kind = "object" ->
         <<91, 111, 98, 106, 101, 99, 116, 32, 79, 98, 106, 101, 99, 116, 93>>
    \* 'undefined'
    [] OTHER -> <<117, 110, 100, 101, 102, 105, 110, 101, 100>>

\* StrWhiteSpaceChar: WhiteSpace (tab, vertical tab, form feed, the byte
\* order mark U+FEFF and the space separators U+0020, U+00A0, U+1680,
\* U+2000..U+200A, U+202F, U+205F, U+3000) and LineTerminator (line feed,
\* carriage return, U+2028, U+2029).
WhiteSpaceChars ==
  {9, 11, 12, 65279, 32, 160, 5760, 8239, 8287, 12288} \cup 8192..8202
    \cup {10, 13, 8232, 8233}

RECURSIVE TrimStart(_)
\* Leading white space is skipped.
TrimStart(cs) ==
  IF cs # <<>> /\ Head(cs) \in WhiteSpaceChars THEN TrimStart(Tail(cs)) ELSE cs

\* A leading sign, + (43) or - (45), is taken off.
Unsigned(cs) == IF cs # <<>> /\ Head(cs) \in {43, 45} THEN Tail(cs) ELSE cs

\* The radix is 16 after a leading 0x or 0X (48, then 120 or 88), else 10.
HasHexPrefix(cs) == Len(cs) >= 2 /\ cs[1] = 48 /\ cs[2] \in {120, 88}

RECURSIVE DigitPrefix(_, _)
\* The longest prefix of cs made of digits in radix R.
DigitPrefix(cs, R) ==
  IF cs # <<>> /\ DigitValue(Head(cs), R) # NoIndex
  THEN <<Head(cs)>> \o DigitPrefix(Tail(cs), R)
  ELSE <<>>

RECURSIVE NumeralValue(_, _)
NumeralValue(ds, R) ==
  IF ds = <<>> THEN 0
  ELSE NumeralValue(SubSeq(ds, 1, Len(ds) - 1), R) * R + DigitValue(ds[Len(ds)], R)

\* parseInt(v) with no radix: NaN where no digit follows the optional white
\* space, sign and 0x; whatever follows the digits is ignored.
parseInt(v) ==
  LET S == TrimStart(StringOf(v))
      sign == IF S # <<>> /\ Head(S) = 45 THEN 0 - 1 ELSE 1
      U == Unsigned(S)
      R == IF HasHexPrefix(U) THEN 16 ELSE 10
      body == IF HasHexPrefix(U) THEN Tail(Tail(U)) ELSE U
      Z == DigitPrefix(body, R)
  IN IF Z = <<>> THEN JsNaN ELSE JsNumber(2 * sign * NumeralValue(Z, R))

\* isNaN(v) for a v of type number
isNaN(v) == v.kind = "NaN"

\* BlockValidator.validateRollbackHeight: what it throws, or the number it
\* returns.
validateRollbackHeight(height) ==
  LET parsed == parseInt(height)
  IN IF isNaN(parsed) \/ LessThan(parsed, 0)
     THEN [threw |-> ValidationError("Invalid height parameter", NULL),
           returned |-> NoIndex]
     ELSE [threw |-> NoError, returned |-> parsed.halves \div 2]

\* The characters of the height parameters the validator is applied to:
\* 0 1 2 - . a A x and, of the white space, the space, the tab, the vertical
\* tab, the no-break space and the en quad.
HeightChars == {48, 49, 50, 45, 46, 97, 65, 120, 32, 9, 11, 160, 8192}

\* The elements of the arrays among the height parameters.
HeightItems ==
  {JsChars(<<55>>), JsChars(<<56>>), JsNumber(10), JsNumber(0 - 2), JsNull,
   JsArray(<<JsNumber(4)>>)}

\* The height parameters: strings of up to MaxChars characters, numbers
\* from -1 to 2.5, null, undefined and NaN, arrays of up to two elements and
\* an object.
RawTargets ==
  {JsChars(cs) : cs \in UNION {[1..n -> HeightChars] : n \in 0..MaxChars}}
    \cup {JsNumber(h) : h \in (0 - 2)..5}
    \cup {JsNull, JsUndefined, JsNaN}
    \cup {JsArray(l) : l \in UNION {[1..n -> HeightItems] : n \in 0..2}}
    \cup {[kind |-> "object"]}

\* request.query.height of POST /rollback: the text of the parameter, or
\* undefined when the query has none.
QueryHeights == {v \in RawTargets : v.kind \in {"string", "undefined"}}

\* A validator is called with one body or one height parameter, as the unit
\* tests call it, or POST /rollback is requested with one query.
SchemaInit ==
  /\ blocks = {}
  /\ transactions = {}
  /\ outputs = {}
  /\ txn = [p \in Procs |-> NoTxn]
  /\ pc = [p \in Procs |-> "idle"]
  /\ \E q \in Procs,
        r \in [op : {"validateBlockSchema"}, body : RawBlocks]
                \cup [op : {"validateRollbackHeight"}, height : RawTargets]
                \cup [op : {"postRollback"}, height : QueryHeights] :
       req = [p \in Procs |-> IF p = q THEN r ELSE NoRequest]
  /\ loc = [p \in Procs |-> LocInit]
  /\ result = [p \in Procs |-> NoReply]
  /\ conn = [p \in Procs |-> 0]
  /\ admissible = [p \in Procs |-> FALSE]
  /\ hist = NoHistory
  /\ pool = ReadyPool
  /\ boot = [c \in Callers |-> BootIdle]

\* BlockValidator.validateBlockSchema(data) returns or throws.
ApplySchema(p) ==
  /\ pc[p] = "idle"
  /\ req[p].op = "validateBlockSchema"
  /\ pc' = [pc EXCEPT ![p] = "done"]
  /\ loc' = [loc EXCEPT ![p].error = validateBlockSchema(req[p].body)]
  /\ UNCHANGED <<blocks, transactions, outputs, txn, req, result, conn,
                 admissible, hist, pool, boot>>

\* BlockValidator.validateRollbackHeight(height) returns or throws.
ApplyRollbackHeight(p) ==
  /\ pc[p] = "idle"
  /\ req[p].op = "validateRollbackHeight"
  /\ pc' = [pc EXCEPT ![p] = "done"]
  /\ loc' = [loc EXCEPT
               ![p].error = validateRollbackHeight(req[p].height).threw,
               ![p].returned = validateRollbackHeight(req[p].height).returned]
  /\ UNCHANGED <<blocks, transactions, outputs, txn, req, result, conn,
                 admissible, hist, pool, boot>>

\* The reply to a request that fails the schema of its route: the handler
\* is not called.
SchemaRefusal(message) ==
  [status |-> 400, error |-> "Bad Request", code |-> "FST_ERR_VALIDATION",
   value |-> NoIndex, message |-> message]

\* POST /rollback: the querystring schema requires height, a string; then
\* BlockValidator.validateRollbackHeight(request.query.height) throws, and
\* handleError replies, or returns the targetHeight that
\* blockchainService.rollback is called with.
PostRollback(p) ==
  /\ pc[p] = "idle"
  /\ req[p].op = "postRollback"
  /\ IF typeof(req[p].height) # "string"
     THEN /\ Reply(p, SchemaRefusal("querystring must have required property 'height'"))
          /\ UNCHANGED req
     ELSE LET v == validateRollbackHeight(req[p].height)
          IN IF v.threw # NoError
             THEN Reply(p, handleError(v.threw)) /\ UNCHANGED req
             ELSE /\ req' = [req EXCEPT ![p] = [op |-> "rollback", height |-> v.returned]]
                  /\ pc' = [pc EXCEPT ![p] = "rb_height"]
                  /\ UNCHANGED <<loc, result>>
  /\ UNCHANGED <<blocks, transactions, outputs, txn, conn, admissible, hist, pool, boot>>

SchemaNext ==
  \E p \in Procs : ApplySchema(p) \/ ApplyRollbackHeight(p) \/ PostRollback(p)

SchemaSpec == SchemaInit /\ [][SchemaNext]_vars

----------------------------------------------------------------------------
(* db/connection.ts: initializeDatabase *)

\* What a step of initializeDatabase leaves alone.
ServerUnchanged ==
  UNCHANGED <<blocks, transactions, outputs, txn, pc, req, loc, result, conn,
              admissible, hist>>

\* initializeDatabase() is called and runs up to its first await:
\* `if (pool) return pool;`, else `pool = new Pool(...)`, `let retries = 0`,
\* and the first `pool.query('SELECT 1')` is sent.
InitializeDatabase(c) ==
  /\ boot[c].pc = "idle"
  /\ IF pool.made
     THEN /\ boot' = [boot EXCEPT ![c].pc = "returned", ![c].returned = pool]
          /\ pool' = pool
     ELSE /\ pool' = NewPool
          /\ boot' = [boot EXCEPT ![c].pc = "query", ![c].retries = 0]
  /\ ServerUnchanged

\* await pool.query('SELECT 1') resolves: break, retries is not maxRetries,
\* return pool.
ProbeSucceeds(c) ==
  /\ boot[c].pc = "query"
  /\ pool' = [pool EXCEPT !.probed = TRUE]
  /\ boot' = [boot EXCEPT ![c].pc = "returned", ![c].probes = @ + 1,
                          ![c].returned = pool']
  /\ ServerUnchanged

\* await pool.query('SELECT 1') rejects: the catch branch starts the timer
\* of one second and awaits it.
ProbeFails(c) ==
  /\ boot[c].pc = "query"
  /\ boot' = [boot EXCEPT ![c].pc = "wait", ![c].probes = @ + 1]
  /\ pool' = pool
  /\ ServerUnchanged

\* The timer fires: retries++; while retries < maxRetries the next query is
\* sent; else the loop ends with retries === maxRetries, and the call throws.
TimerFires(c) ==
  /\ boot[c].pc = "wait"
  /\ boot' = [boot EXCEPT
                ![c].retries = @ + 1,
                ![c].pc = IF boot[c].retries + 1 < maxRetries THEN "query"
                          ELSE "threw"]
  /\ pool' = pool
  /\ ServerUnchanged

\* The module as loaded: pool is undefined, no request is served.
BootInit ==
  /\ InitTables
  /\ hist = NoHistory
  /\ pool = NoPool
  /\ boot = [c \in Callers |-> BootIdle]

BootNext ==
  \E c \in Callers :
    \/ InitializeDatabase(c)
    \/ ProbeSucceeds(c)
    \/ ProbeFails(c)
    \/ TimerFires(c)

BootSpec == BootInit /\ [][BootNext]_vars

----------------------------------------------------------------------------
(* Vocabulary of the properties *)

\* The digest the claims name: the decimal height followed by the
\* transaction ids in block order, nothing in between.
DigestOf(b) == ToString(b.height) \o JoinStr(TxIdsOf(b))

CommittedUnchanged ==
  /\ blocks' = blocks
  /\ transactions' = transactions
  /\ outputs' = outputs

Submits(p) == req[p].op = "processBlock"

\* The handler of p sends its reply in this step.
Replies(p) == pc[p] \notin {"idle", "done"} /\ pc'[p] = "done"

CatalogueTxs ==
  UNION {{b.transactions[k] : k \in 1..Len(b.transactions)} : b \in Catalogue}

\* The payload of a stored transaction (the tables keep only its id).
TxBody(id) == CHOOSE tx \in CatalogueTxs : tx.id = id

\* The inputs of stored transactions that name output k.
SpendersOf(k) ==
  UNION {{<<t.id, i>> : i \in {j \in 1..Len(TxBody(t.id).inputs) :
                                  <<TxBody(t.id).inputs[j].txId,
                                    TxBody(t.id).inputs[j].index>> = k}}
           : t \in transactions}

SharesInput(a, b) ==
  \E i \in 1..Len(FlatInputs(a.transactions)) :
    \E j \in 1..Len(FlatInputs(b.transactions)) :
      FlatInputs(a.transactions)[i] = FlatInputs(b.transactions)[j]

----------------------------------------------------------------------------
(* C1 *)

\* Every output key has one row, a row records a spender exactly when it is
\* spent, and at most one input of the stored transactions names it.
C1_OneSpender ==
  /\ \A o1, o2 \in outputs : Key(o1) = Key(o2) => o1 = o2
  /\ \A o \in outputs : o.spent <=> o.spent_by_tx # SqlNull
  /\ \A o \in outputs : Cardinality(SpendersOf(Key(o))) <= 1

\* No commit hands a spent output to another spender.
C1_NoRespend ==
  \A o \in outputs : \A n \in outputs' :
    (Key(n) = Key(o) /\ o.spent /\ n.spent)
      => (n.spent_by_tx = o.spent_by_tx /\ n.spent_by_index = o.spent_by_index)

\* C1: in every committed state no output is spent by two different inputs:
\* each stored output has at most one recorded spender, and a spent output
\* gets another spender only after a committed state in which it was unspent.
C1_NoDoubleSpend == [](C1_OneSpender) /\ [][C1_NoRespend]_vars

\* A second spender of a spent output has just been refused.
C1_Witness ==
  \E p \in Procs :
    /\ pc[p] = "done" /\ Submits(p) /\ result[p].code = "DOUBLE_SPEND"
    /\ \E o \in outputs :
         /\ o.spent
         /\ \E t \in transactions : Holds(t.id) = o.spent_by_tx
         /\ In(o.tx_id, o.output_index) = FlatInputs(req[p].block.transactions)[1]

----------------------------------------------------------------------------
(* C2 *)

\* C2: in every committed state the stored block heights are exactly
\* 1..currentHeight, also when requests overlap in time.
C2_ContiguousHeights ==
  {b.height : b \in blocks} = 1..getCurrentHeight

----------------------------------------------------------------------------
(* C3 *)

\* C3: whenever validateBlock runs on a block whose height is not
\* currentHeight + 1, the submission is answered 400 INVALID_HEIGHT, and it
\* has written nothing: the tables are as they were, no transaction is open
\* and no client is held.
C3_HeightRejected ==
  [][\A p \in Procs :
       (ValidateBlock(p) /\ req[p].block.height # getCurrentHeight + 1)
         => /\ pc'[p] = "done"
            /\ result'[p].status = 400
            /\ result'[p].code = "INVALID_HEIGHT"
            /\ CommittedUnchanged
            /\ txn'[p] = NoTxn /\ conn'[p] = 0]_vars

\* A block two heights ahead has been refused with INVALID_HEIGHT.
C3_Witness ==
  \E p \in Procs :
    /\ pc[p] = "done" /\ Submits(p)
    /\ req[p].block.height > getCurrentHeight + 1
    /\ result[p].status = 400 /\ result[p].code = "INVALID_HEIGHT"

----------------------------------------------------------------------------
(* C4 *)

\* The inputs of block b that name an output a stored transaction has spent.
SpentInputs(b) ==
  {k \in 1..Len(FlatInputs(b.transactions)) :
     \E o \in Referenced(FlatInputs(b.transactions)[k]) : o.spent}

\* C4 as claimed (requests served one at a time, the store answering): a
\* block with an input naming an output a committed block has spent is
\* refused with 409 DOUBLE_SPEND.
C4_SpentInputIsConflict ==
  [][\A p \in Procs :
       (/\ Submits(p) /\ SpentInputs(req[p].block) # {}
        /\ Replies(p) /\ result'[p].status # 500)
         => (result'[p].status = 409 /\ result'[p].code = "DOUBLE_SPEND")]_vars

\* Every input before the k-th names a stored, unspent output.
EarlierInputsFine(b, k) ==
  \A j \in 1..(k - 1) :
    \E o \in Referenced(FlatInputs(b.transactions)[j]) : ~ o.spent

\* The status and the code of the reply a block with a spent input gets from
\* a store that answers: the conflict when the block has the next height and
\* the matching id and nothing but unspent outputs before a spent input, and
\* else the error of the first check that fails.
SpentInputReply(b) ==
  IF b.height # getCurrentHeight + 1 THEN <<400, "INVALID_HEIGHT">>
  ELSE IF b.id # DigestOf(b) THEN <<400, "INVALID_BLOCK_ID">>
  ELSE IF \E k \in SpentInputs(b) : EarlierInputsFine(b, k)
  THEN <<409, "DOUBLE_SPEND">>
  ELSE <<400, "INVALID_INPUT">>

\* C4 amended (requests served one at a time): a block with an input naming
\* an output a committed block has spent is never admitted and no step of
\* its handling changes the tables; the store answering, it is refused with
\* 409 DOUBLE_SPEND when it has the next height and the matching id and
\* every input before the spent one names a stored unspent output, and else
\* with the 400 of the first check that fails: INVALID_HEIGHT, then
\* INVALID_BLOCK_ID, then INVALID_INPUT.
C4_SpentInputRefused ==
  [][\A p \in Procs :
       (Submits(p) /\ SpentInputs(req[p].block) # {})
         => /\ CommittedUnchanged
            /\ Replies(p) => result'[p].status # 200
            /\ (Replies(p) /\ result'[p].status # 500)
                 => <<result'[p].status, result'[p].code>>
                      = SpentInputReply(req[p].block)]_vars

\* Spend3a, naming t1:0 that block 2 has spent, was refused with the conflict.
C4_Witness ==
  \E p \in Procs :
    /\ pc[p] = "done" /\ Submits(p) /\ req[p].block = Spend3a
    /\ SpentInputs(req[p].block) # {}
    /\ result[p].status = 409 /\ result[p].code = "DOUBLE_SPEND"

----------------------------------------------------------------------------
(* C5 *)

Won(p) == result[p].status = 200

LostToConflict(p) == result[p].status = 409 /\ result[p].code = "DOUBLE_SPEND"

\* C5: of two different blocks submitted concurrently, each admissible on
\* arrival and both naming the same input, exactly one is admitted and the
\* other is answered with the conflict error 409 DOUBLE_SPEND.
C5_OneWinsOneConflict ==
  \A p, q \in Procs :
    (/\ p # q
     /\ pc[p] = "done" /\ pc[q] = "done"
     /\ Submits(p) /\ Submits(q)
     /\ admissible[p] /\ admissible[q]
     /\ req[p].block # req[q].block
     /\ SharesInput(req[p].block, req[q].block))
      => \/ Won(p) /\ LostToConflict(q)
         \/ Won(q) /\ LostToConflict(p)

----------------------------------------------------------------------------
(* C6 *)

PastHeightCheck(p) ==
  /\ Submits(p)
  /\ pc[p] \in {"pb_getOutput", "pb_connect", "pb_begin", "pb_createBlock",
                "pb_createTx", "pb_mark", "pb_out", "pb_commit"}

\* C6: two submissions in flight never both stand past the height check for
\* the same height.
C6_OnePassesHeightCheck ==
  \A p, q \in Procs :
    (p # q /\ PastHeightCheck(p) /\ PastHeightCheck(q))
      => req[p].block.height # req[q].block.height

----------------------------------------------------------------------------
(* C7 *)

\* C7: a block that commits meets all four admission rules in the ledger as
\* committed immediately before its commit, and a rollback that commits
\* meets its preconditions in that ledger.
C7_ValidAtCommit ==
  [][\A p \in Procs :
       /\ (pc[p] = "pb_commit" /\ pc'[p] = "done" /\ result'[p].status = 200)
            => MeetsAdmissionRules(req[p].block)
       /\ (pc[p] = "rb_commit" /\ pc'[p] = "done" /\ result'[p].status = 200)
            => /\ req[p].height <= getCurrentHeight
               /\ getCurrentHeight - req[p].height <= maxRollbackBlocks]_vars

----------------------------------------------------------------------------
(* C8 *)

\* C8: in every committed state an output is spent exactly when its recorded
\* spender is a stored transaction, and every output a stored transaction
\* consumed is spent.
C8_SpentIffSpenderStored ==
  /\ \A o \in outputs :
       o.spent <=> (\E t \in transactions : Holds(t.id) = o.spent_by_tx)
  /\ \A t \in transactions :
       \A k \in 1..Len(TxBody(t.id).inputs) :
         \A o \in Referenced(TxBody(t.id).inputs[k]) : o.spent

----------------------------------------------------------------------------
(* C9 *)

\* The rows a committed admission of block b must have left.
Landed(b) ==
  /\ BlockRowOf(b) \in blocks'
  /\ \A j \in 1..Len(b.transactions) :
       LET tx == b.transactions[j]
       IN  /\ [id |-> tx.id, block_id |-> b.id] \in transactions'
           /\ \A i \in 1..Len(tx.outputs) :
                OutputRow(tx.id, i - 1, tx.outputs[i]) \in outputs'
           /\ \A i \in 1..Len(tx.inputs) :
                \E o \in outputs' :
                  /\ Key(o) = <<tx.inputs[i].txId, tx.inputs[i].index>>
                  /\ o.spent /\ o.spent_by_tx = Holds(tx.id) /\ o.spent_by_index = Holds(i - 1)

\* C9: a mutating request is all-or-nothing.  The committed tables change
\* only in the COMMIT step of a request that is then answered 200, and an
\* admission answered 200 has left every row of its block; a request that
\* ends in an error changed nothing in any of its steps and leaves no
\* transaction open.
C9_AllOrNothing ==
  [][/\ ~ CommittedUnchanged
          => \E p \in Procs :
               /\ pc[p] \in {"pb_commit", "rb_commit"}
               /\ Replies(p) /\ result'[p].status = 200
               /\ \A q \in Procs \ {p} : pc'[q] = pc[q]
     /\ \A p \in Procs :
          (Replies(p) /\ result'[p].status # 200)
            => CommittedUnchanged /\ txn'[p] = NoTxn
     /\ \A p \in Procs :
          (Replies(p) /\ Submits(p) /\ result'[p].status = 200)
            => Landed(req[p].block)]_vars

\* A statement has failed after the block, its transaction and an output
\* were written; ROLLBACK is about to run.
C9_Witness ==
  \E p \in Procs :
    /\ pc[p] = "abort"
    /\ txn[p].insBlocks # {} /\ txn[p].insTxs # {} /\ txn[p].newOutputs # {}
    /\ blocks # {}

----------------------------------------------------------------------------
(* C10 *)

OwnedUnspent(a) == {o \in outputs : o.address = a /\ ~ o.spent}

\* C10: a balance query the store answers returns, with status 200, the sum
\* of the values of the committed unspent outputs of the address, which is 0
\* for an address that owns none.
C10_BalanceIsUnspentSum ==
  [][\A p \in Procs :
       (pc[p] = "q_balance" /\ Replies(p) /\ result'[p].status # 500)
         => /\ result'[p].status = 200
            /\ result'[p].value = SumValues(OwnedUnspent(req[p].address))
            /\ (\A o \in outputs : o.address # req[p].address)
                 => result'[p].value = 0]_vars

\* A balance was returned for an address that owns a spent and an unspent
\* output, and 0 for an address that owns none.
C10_Witness ==
  \E p, q \in Procs :
    /\ pc[p] = "done" /\ req[p].op = "getBalance" /\ result[p].status = 200
    /\ result[p].value > 0
    /\ \E o \in outputs : o.address = req[p].address /\ o.spent
    /\ result[p].value = SumValues(OwnedUnspent(req[p].address))
    /\ pc[q] = "done" /\ req[q].op = "getBalance" /\ result[q].status = 200
    /\ result[q].value = 0
    /\ \A o \in outputs : o.address # req[q].address

----------------------------------------------------------------------------
(* C11 *)

\* Block b has the next height and the matching id, and each of its inputs
\* names a stored unspent output.
PassesInputChecks(b) ==
  /\ b.height = getCurrentHeight + 1
  /\ b.id = calculateBlockHash(b.height, TxIdsOf(b))
  /\ \A k \in 1..Len(FlatInputs(b.transactions)) :
       \E o \in Referenced(FlatInputs(b.transactions)[k]) : ~ o.spent

\* Over the whole block, the referenced values and the new values agree
\* within the tolerance.
Conserves(b) ==
  Abs(ReferencedValues(FlatInputs(b.transactions))
        - SumSeq(FlatOutputValues(b.transactions))) <= Tolerance

\* C11 (requests served one at a time): a block above height 1 that passes
\* the height, identity and input checks is admitted only if its block-wide
\* input and output totals agree within the tolerance; when they do not, the
\* store answering, it is refused with 400 VALUE_MISMATCH, and no step of its
\* handling changes the tables.
C11_ConservationEnforced ==
  [][\A p \in Procs :
       (Submits(p) /\ req[p].block.height > 1 /\ PassesInputChecks(req[p].block))
         => /\ (Replies(p) /\ result'[p].status = 200) => Conserves(req[p].block)
            /\ ~ Conserves(req[p].block)
                 => /\ CommittedUnchanged
                    /\ (Replies(p) /\ result'[p].status # 500)
                         => (result'[p].status = 400
                             /\ result'[p].code = "VALUE_MISMATCH")]_vars

\* Burn2, whose outputs fall short of its input by more than the tolerance,
\* was refused with VALUE_MISMATCH on a ledger where its input is unspent.
C11_Witness ==
  \E p \in Procs :
    /\ pc[p] = "done" /\ Submits(p) /\ req[p].block = Burn2
    /\ PassesInputChecks(Burn2) /\ ~ Conserves(Burn2)
    /\ result[p].status = 400 /\ result[p].code = "VALUE_MISMATCH"

----------------------------------------------------------------------------
(* C12 *)

RECURSIVE FlatOutputs(_)
FlatOutputs(txs) ==
  IF txs = <<>> THEN <<>> ELSE Head(txs).outputs \o FlatOutputs(Tail(txs))

\* The value block b creates for address a.
MintedTo(b, a) ==
  SumSeq([k \in 1..Len(FlatOutputs(b.transactions)) |->
            IF FlatOutputs(b.transactions)[k].address = a
            THEN FlatOutputs(b.transactions)[k].value ELSE 0])

\* C12 (requests served one at a time): on the empty ledger a block of
\* height 1 with the matching id and no inputs is admitted whatever its
\* output values, the store answering, and the balance of every address is
\* then the value the block created for it.
C12_GenesisMints ==
  [][\A p \in Procs :
       (/\ Replies(p) /\ Submits(p) /\ result'[p].status # 500
        /\ blocks = {} /\ outputs = {}
        /\ req[p].block.height = 1
        /\ HashCheck(req[p].block)
        /\ FlatInputs(req[p].block.transactions) = <<>>)
         => /\ result'[p].status = 200
            /\ \A a \in Addresses :
                 getBalanceForAddress(a)' = MintedTo(req[p].block, a)]_vars

\* A first block creating value out of nothing has been admitted, and the
\* balances are the created values.
C12_Witness ==
  \E p \in Procs :
    /\ pc[p] = "done" /\ Submits(p) /\ req[p].block = Genesis
    /\ result[p].status = 200
    /\ getCurrentHeight = 1
    /\ getBalanceForAddress("a1") = 50 /\ getBalanceForAddress("a2") = 30
    /\ getBalanceForAddress("a3") = 0

----------------------------------------------------------------------------
(* C13 *)

\* C13: when validateBlock runs on a block of the next height whose id is
\* not the digest of its height and transaction ids, the submission is
\* answered 400 INVALID_BLOCK_ID in that step with the tables unchanged, no
\* transaction open and no client held; and no submission whose id is that
\* digest is ever answered INVALID_BLOCK_ID.
C13_IdentityChecked ==
  [][\A p \in Procs :
       /\ (/\ ValidateBlock(p)
           /\ req[p].block.height = getCurrentHeight + 1
           /\ req[p].block.id # DigestOf(req[p].block))
            => /\ pc'[p] = "done"
               /\ result'[p].status = 400
               /\ result'[p].code = "INVALID_BLOCK_ID"
               /\ CommittedUnchanged
               /\ txn'[p] = NoTxn /\ conn'[p] = 0
       /\ (/\ Replies(p) /\ Submits(p)
           /\ req[p].block.id = DigestOf(req[p].block))
            => result'[p].code # "INVALID_BLOCK_ID"]_vars

\* Cross2 under the digest of its ids in the reverse order was refused with
\* INVALID_BLOCK_ID at the height where Cross2 itself is admissible.
C13_Witness ==
  \E p \in Procs :
    /\ pc[p] = "done" /\ Submits(p) /\ req[p].block = Cross2Swapped
    /\ getCurrentHeight = 1
    /\ MeetsAdmissionRules(Cross2)
    /\ result[p].status = 400 /\ result[p].code = "INVALID_BLOCK_ID"

----------------------------------------------------------------------------
(* C14 *)

\* The inputs of block b that name no stored output.
MissingInputs(b) ==
  {k \in 1..Len(FlatInputs(b.transactions)) :
     Referenced(FlatInputs(b.transactions)[k]) = {}}

\* C14 as claimed (requests served one at a time, the store answering): a
\* block with the next height and the matching id and an input that names
\* no stored output is refused with 400 INVALID_INPUT.
C14_MissingInputIsReferential ==
  \A p \in Procs :
    (/\ pc[p] = "done" /\ Submits(p) /\ result[p].status # 500
     /\ req[p].block.height = getCurrentHeight + 1
     /\ req[p].block.id = DigestOf(req[p].block)
     /\ MissingInputs(req[p].block) # {})
      => (result[p].status = 400 /\ result[p].code = "INVALID_INPUT")

\* C14 amended: such a block, genesis or not, is never admitted and no step
\* of its handling changes the tables; the store answering, it is refused
\* with 400 INVALID_INPUT when every input before its first missing one
\* names a stored unspent output, and with 409 DOUBLE_SPEND otherwise.
C14_MissingInputRefused ==
  [][\A p \in Procs :
       (/\ Submits(p)
        /\ req[p].block.height = getCurrentHeight + 1
        /\ req[p].block.id = DigestOf(req[p].block)
        /\ MissingInputs(req[p].block) # {})
         => /\ CommittedUnchanged
            /\ Replies(p) => result'[p].status # 200
            /\ (Replies(p) /\ result'[p].status # 500)
                 => IF \E k \in MissingInputs(req[p].block) :
                         EarlierInputsFine(req[p].block, k)
                    THEN result'[p].status = 400 /\ result'[p].code = "INVALID_INPUT"
                    ELSE result'[p].status = 409 /\ result'[p].code = "DOUBLE_SPEND"]_vars

\* A height-1 block with an input was refused with INVALID_INPUT on the
\* empty ledger.
C14_Witness ==
  \E p \in Procs :
    /\ pc[p] = "done" /\ Submits(p) /\ req[p].block = GenesisWithInput
    /\ blocks = {} /\ MissingInputs(GenesisWithInput) # {}
    /\ result[p].status = 400 /\ result[p].code = "INVALID_INPUT"

----------------------------------------------------------------------------
(* C15 *)

\* The admission checks of the claim, each on the committed ledger.
HeightOk(b) == b.height = getCurrentHeight + 1

IdOk(b) == b.id = DigestOf(b)

InputsOk(b) ==
  \A k \in 1..Len(FlatInputs(b.transactions)) :
    \E o \in Referenced(FlatInputs(b.transactions)[k]) : ~ o.spent

ValuesOk(b) == b.height = 1 \/ Conserves(b)

\* C15 (requests served one at a time, the store answering): the error a
\* submission is answered with is that of the first check it fails, in the
\* order height, identity, inputs, conservation; an error of a later check
\* is reported only when every earlier check passes.
C15_FirstFailingCheck ==
  [][\A p \in Procs :
       (Replies(p) /\ Submits(p) /\ result'[p].status # 500)
         => LET b == req[p].block
                code == result'[p].code
            IN  /\ ~ HeightOk(b) => code = "INVALID_HEIGHT"
                /\ (HeightOk(b) /\ ~ IdOk(b)) => code = "INVALID_BLOCK_ID"
                /\ (HeightOk(b) /\ IdOk(b) /\ ~ InputsOk(b))
                     => code \in {"INVALID_INPUT", "DOUBLE_SPEND"}
                /\ (HeightOk(b) /\ IdOk(b) /\ InputsOk(b) /\ ~ ValuesOk(b))
                     => code = "VALUE_MISMATCH"
                /\ (HeightOk(b) /\ IdOk(b) /\ InputsOk(b) /\ ValuesOk(b))
                     => result'[p].status = 200]_vars

\* A block failing all four checks at once was answered INVALID_HEIGHT.
C15_Witness ==
  \E p \in Procs :
    /\ pc[p] = "done" /\ Submits(p) /\ req[p].block = WrongId(Ghost2)
    /\ ~ HeightOk(req[p].block) /\ ~ IdOk(req[p].block)
    /\ ~ InputsOk(req[p].block) /\ ~ ValuesOk(req[p].block)
    /\ result[p].status = 400 /\ result[p].code = "INVALID_HEIGHT"

----------------------------------------------------------------------------
(* C16 *)

\* What the claim says a rollback to height t leaves of the committed tables.
KeptBlocks(t) == {b \in blocks : b.height <= t}

KeptTxs(t) ==
  {x \in transactions : \E b \in KeptBlocks(t) : b.id = x.block_id}

KeptTxIds(t) == {x.id : x \in KeptTxs(t)}

\* The outputs of the kept transactions, unspent again with the spender
\* reference cleared where the spender is not kept.
KeptOutputs(t) ==
  {IF o.spent /\ o.spent_by_tx \cap KeptTxIds(t) = {}
   THEN [o EXCEPT !.spent = FALSE, !.spent_by_tx = SqlNull, !.spent_by_index = SqlNull]
   ELSE o : o \in {r \in outputs : r.tx_id \in KeptTxIds(t)}}

\* C16 (requests served one at a time): the COMMIT of a rollback to height t
\* that is answered 200 leaves the current height t, exactly the blocks at
\* or below t with their transactions and outputs, and of these outputs
\* those spent by a deleted transaction unspent with no spender, the others
\* as they were.
C16_RollbackRestores ==
  [][\A p \in Procs :
       (pc[p] = "rb_commit" /\ Replies(p) /\ result'[p].status = 200)
         => /\ getCurrentHeight' = req[p].height
            /\ blocks' = KeptBlocks(req[p].height)
            /\ transactions' = KeptTxs(req[p].height)
            /\ outputs' = KeptOutputs(req[p].height)]_vars

\* A rollback from height 3 to height 2 is about to commit: t1:0 was spent
\* at height 2 and stays spent, t1:1 was spent at height 3 and is restored,
\* and block 3 goes with its transaction and output.
C16_Witness ==
  \E p \in Procs :
    /\ pc[p] = "rb_commit" /\ req[p].height = 2 /\ getCurrentHeight = 3
    /\ \E o \in outputs : Key(o) = <<"t1", 0>> /\ o.spent /\ o.spent_by_tx = Holds("t2")
    /\ \E o \in outputs : Key(o) = <<"t1", 1>> /\ o.spent /\ o.spent_by_tx = Holds("t4")
    /\ \E o \in CommitOutputs(p) : Key(o) = <<"t1", 0>> /\ o.spent
    /\ \E o \in CommitOutputs(p) : Key(o) = <<"t1", 1>> /\ ~ o.spent
    /\ \A o \in CommitOutputs(p) : o.tx_id # "t4"
    /\ {b.height : b \in CommitBlocks(p)} = {1, 2}

----------------------------------------------------------------------------
(* C17 *)

\* The unspent outputs of a table: identity, address and value.
Unspent(rows) ==
  {<<o.tx_id, o.output_index, o.address, o.value>> : o \in {r \in rows : ~ r.spent}}

\* C17 (requests served one at a time): when a rollback to height t that is
\* answered 200 commits, the unspent outputs are those of the ledger the
\* block of height t + 1 was admitted on; in particular admitting a block B
\* and rolling back to B.height - 1 restores the unspent set.
C17_RoundTrip ==
  [][\A p \in Procs :
       (/\ pc[p] = "rb_commit" /\ Replies(p) /\ result'[p].status = 200
        /\ req[p].height < SeqMaxHeight
        /\ hist.at[req[p].height + 1].kept)
         => Unspent(outputs') = Unspent(hist.at[req[p].height + 1].before)]_vars

\* The rollback of the block just admitted is about to commit: the block
\* had changed the unspent set, and the rollback brings back the one the
\* block was admitted on.
C17_Witness ==
  \E p \in Procs :
    /\ pc[p] = "rb_commit"
    /\ getCurrentHeight = req[p].height + 1
    /\ hist.at[getCurrentHeight].kept
    /\ FlatInputs(hist.at[getCurrentHeight].block.transactions) # <<>>
    /\ Unspent(hist.at[getCurrentHeight].before) # {}
    /\ Unspent(outputs) # Unspent(hist.at[getCurrentHeight].before)
    /\ Unspent(CommitOutputs(p)) = Unspent(hist.at[getCurrentHeight].before)

----------------------------------------------------------------------------
(* C18 *)

\* processTransaction on a ledger nobody else touches: each input's output
\* is marked spent by the transaction, then the outputs are created.
Processed(rows, tx) ==
  LET names(o, i) == tx.inputs[i].txId = o.tx_id /\ tx.inputs[i].index = o.output_index
      spentAt(o)  == {i \in 1..Len(tx.inputs) : names(o, i)}
  IN  {IF spentAt(o) # {} /\ ~ o.spent
       THEN [o EXCEPT !.spent = TRUE, !.spent_by_tx = Holds(tx.id),
                      !.spent_by_index = Holds((CHOOSE i \in spentAt(o) : TRUE) - 1)]
       ELSE o : o \in rows}
        \cup {OutputRow(tx.id, i - 1, tx.outputs[i]) : i \in 1..Len(tx.outputs)}

RECURSIVE ProcessedAll(_, _)
ProcessedAll(rows, txs) ==
  IF txs = <<>> THEN rows ELSE ProcessedAll(Processed(rows, Head(txs)), Tail(txs))

\* The outputs of a ledger on which only the recorded blocks 1..t were ever
\* admitted.
RECURSIVE BuiltUpTo(_)
BuiltUpTo(t) ==
  IF t = 0 THEN {}
  ELSE ProcessedAll(BuiltUpTo(t - 1), hist.at[t].block.transactions)

BalanceIn(rows, a) == SumValues({o \in rows : o.address = a /\ ~ o.spent})

\* C18 (requests served one at a time): when a rollback to height t that is
\* answered 200 commits, the balance of every address is the one it has on
\* a ledger on which only the blocks of heights 1..t were ever admitted.
C18_RollbackThenQuery ==
  [][\A p \in Procs :
       (/\ pc[p] = "rb_commit" /\ Replies(p) /\ result'[p].status = 200
        /\ \A h \in 1..req[p].height : hist.at[h].kept)
         => \A a \in Addresses :
              getBalanceForAddress(a)' = BalanceIn(BuiltUpTo(req[p].height), a)]_vars

\* A rollback over two blocks is about to commit: the balances differ from
\* those of the ledger built up to the target, and will be those.
C18_Witness ==
  \E p \in Procs :
    /\ pc[p] = "rb_commit"
    /\ req[p].height = 1 /\ getCurrentHeight = 3
    /\ \A h \in 1..3 : hist.at[h].kept
    /\ \E a \in Addresses :
         getBalanceForAddress(a) # BalanceIn(BuiltUpTo(1), a)
    /\ \E a \in Addresses : BalanceIn(BuiltUpTo(1), a) > 0
    /\ \A a \in Addresses :
         BalanceIn(CommitOutputs(p), a) = BalanceIn(BuiltUpTo(1), a)

----------------------------------------------------------------------------
(* C19 *)

RollsBack(p) == req[p].op = "rollback"

\* C19: whenever rollback reads a current height below its target, the
\* request is answered 400 FUTURE_HEIGHT in that step: the tables are
\* unchanged, no transaction is open and no client is held.
C19_FutureHeightRejected ==
  [][\A p \in Procs :
       (ValidateRollback(p) /\ req[p].height > getCurrentHeight)
         => /\ pc'[p] = "done"
            /\ result'[p].status = 400
            /\ result'[p].code = "FUTURE_HEIGHT"
            /\ CommittedUnchanged
            /\ txn'[p] = NoTxn /\ conn'[p] = 0]_vars

\* A rollback to the height above a ledger holding spent outputs was
\* refused with FUTURE_HEIGHT.
C19_Witness ==
  \E p \in Procs :
    /\ pc[p] = "done" /\ RollsBack(p)
    /\ req[p].height = getCurrentHeight + 1
    /\ \E o \in outputs : o.spent
    /\ result[p].status = 400 /\ result[p].code = "FUTURE_HEIGHT"

----------------------------------------------------------------------------
(* C20 *)

\* The depth of the rollback p asks for, on the committed ledger.
Depth(p) == getCurrentHeight - req[p].height

\* C20 (requests served one at a time): a rollback to a height not above
\* the current one passes validation exactly when its depth is at most
\* maxRollbackBlocks, the depth equal to it included, and is then answered
\* 200 if the store answers; a deeper one is answered 400
\* EXCESSIVE_ROLLBACK in the validation step, with the tables unchanged, no
\* transaction open and no client held.
C20_DepthLimited ==
  [][\A p \in Procs :
       /\ (ValidateRollback(p) /\ Depth(p) >= 0 /\ Depth(p) > maxRollbackBlocks)
            => /\ pc'[p] = "done"
               /\ result'[p].status = 400
               /\ result'[p].code = "EXCESSIVE_ROLLBACK"
               /\ CommittedUnchanged
               /\ txn'[p] = NoTxn /\ conn'[p] = 0
       /\ (ValidateRollback(p) /\ Depth(p) >= 0 /\ Depth(p) <= maxRollbackBlocks)
            => pc'[p] = "rb_connect"
       /\ (/\ Replies(p) /\ RollsBack(p) /\ result'[p].status # 500
           /\ Depth(p) >= 0 /\ Depth(p) <= maxRollbackBlocks)
            => result'[p].status = 200]_vars

\* A rollback one block deeper than the maximum was refused.
C20_Witness ==
  \E p \in Procs :
    /\ pc[p] = "done" /\ RollsBack(p)
    /\ Depth(p) = maxRollbackBlocks + 1
    /\ result[p].status = 400 /\ result[p].code = "EXCESSIVE_ROLLBACK"

\* A rollback of exactly the maximum depth is about to commit.
C20_AtLimit ==
  \E p \in Procs :
    /\ pc[p] = "rb_commit" /\ Depth(p) = maxRollbackBlocks
    /\ CommitBlocks(p) # blocks

----------------------------------------------------------------------------
(* C21 *)

\* The heights at which the history holds an admitted block.
AdmittedHeights == {h \in 1..SeqMaxHeight : hist.at[h].kept}

\* v is the greatest height among the stored blocks, or 0 when there is none.
IsTopHeight(v) ==
  IF blocks = {} THEN v = 0
  ELSE (\E b \in blocks : b.height = v) /\ (\A b \in blocks : b.height <= v)

\* C21 (requests served one at a time): a height query the store answers
\* returns the greatest stored height, 0 on the empty ledger; the ledger that
\* admitted blocks 1..n from empty has current height n; and the COMMIT of
\* every admission answered 200 raises the current height by exactly 1.
C21_HeightIsTop ==
  /\ [](AdmittedHeights = 1..getCurrentHeight /\ IsTopHeight(getCurrentHeight))
  /\ [][\A p \in Procs :
         /\ (pc[p] = "q_height" /\ Replies(p) /\ result'[p].status # 500)
              => (result'[p].status = 200 /\ IsTopHeight(result'[p].value))
         /\ (pc[p] = "pb_commit" /\ Replies(p) /\ result'[p].status = 200)
              => getCurrentHeight' = getCurrentHeight + 1]_vars

\* After blocks 1..3 were admitted from the empty ledger a height query
\* returned 3.
C21_Witness ==
  \E p \in Procs :
    /\ pc[p] = "done" /\ req[p].op = "getCurrentHeight"
    /\ result[p].status = 200 /\ result[p].value = 3
    /\ AdmittedHeights = 1..3
    /\ {b.height : b \in blocks} = 1..3

----------------------------------------------------------------------------
(* C22 *)

Queries(p) == req[p].op \in {"getBalance", "getCurrentHeight"}

\* The outputs table as it would be if every open transaction's writes were
\* visible: rows they updated or deleted replaced by their new versions.
InFlightOutputs ==
  {o \in outputs : \A q \in Procs : Key(o) \notin txn[q].lockedOut}
    \cup UNION {txn[q].newOutputs : q \in Procs}

InFlightBalance(a) ==
  SumValues({o \in InFlightOutputs : o.address = a /\ ~ o.spent})

\* C22: a balance or height query that is answered returns what the
\* committed tables hold, whatever other requests have written and not yet
\* committed, and no step of a query changes the tables, a transaction's
\* write set or the clients held.
C22_QueriesReadCommitted ==
  [][\A p \in Procs :
       /\ (pc[p] = "q_balance" /\ Replies(p) /\ result'[p].status = 200)
            => result'[p].value = SumValues(OwnedUnspent(req[p].address))
       /\ (pc[p] = "q_height" /\ Replies(p) /\ result'[p].status = 200)
            => IsTopHeight(result'[p].value)
       /\ (Queries(p) /\ pc'[p] # pc[p])
            => (CommittedUnchanged /\ txn' = txn /\ conn' = conn)]_vars

\* A balance query was answered with the committed balance while an open
\* transaction holds uncommitted writes under which the balance differs.
C22_Witness ==
  \E p, q \in Procs :
    /\ pc[p] = "done" /\ req[p].op = "getBalance" /\ result[p].status = 200
    /\ result[p].value = SumValues(OwnedUnspent(req[p].address))
    /\ txn[q].open /\ txn[q].newOutputs # {}
    /\ InFlightBalance(req[p].address) # result[p].value

----------------------------------------------------------------------------
(* C23 *)

Mutates(p) == req[p].op \in {"processBlock", "rollback"}

\* The reply to an error that is none of the typed ledger errors.
GenericFailure ==
  [status |-> 500, error |-> "Internal server error", code |-> NULL,
   value |-> NoIndex]

ValidationCodes ==
  {"INVALID_HEIGHT", "INVALID_BLOCK_ID", "INVALID_INPUT", "VALUE_MISMATCH",
   "FUTURE_HEIGHT", "EXCESSIVE_ROLLBACK"}

\* A typed error as the caller sees it: its own status, message and code.
TypedReply(r) ==
  \/ r.status = 400 /\ r.code \in ValidationCodes /\ r.error # "Internal server error"
  \/ r.status = 409 /\ r.code = "DOUBLE_SPEND" /\ r.error # "Internal server error"

\* C23: in a processBlock or rollback call, a rejected pool query or
\* connect is answered with the generic failure (500, 'Internal server
\* error', no code); an error thrown inside the transaction that is no typed
\* error leads to the catch block, whose reply is the generic failure with
\* the transaction closed, the client released and the tables unchanged;
\* every reply that is not a success is either that generic failure or a
\* typed error with status 400 or 409 and its code.
C23_FailuresAreGeneric ==
  [][\A p \in Procs :
       Mutates(p) =>
         /\ PoolFails(p) => result'[p] = GenericFailure
         /\ StatementFails(p)
              => (pc'[p] = "abort" /\ ~ IsAppError(loc'[p].error))
         /\ (pc[p] = "abort" /\ Replies(p) /\ ~ IsAppError(loc[p].error))
              => /\ result'[p] = GenericFailure
                 /\ txn'[p] = NoTxn /\ conn'[p] = 0
                 /\ CommittedUnchanged
         /\ (Replies(p) /\ result'[p].status # 200)
              => (result'[p] = GenericFailure \/ TypedReply(result'[p]))]_vars

\* A statement of an admission has failed with an untyped error after the
\* block, its transaction and an output were written, while the other
\* request got a typed error; the catch block is about to run.
C23_Witness ==
  \E p, q \in Procs :
    /\ pc[p] = "abort" /\ Submits(p) /\ ~ IsAppError(loc[p].error)
    /\ txn[p].open /\ conn[p] = 1
    /\ txn[p].insBlocks # {} /\ txn[p].insTxs # {} /\ txn[p].newOutputs # {}
    /\ pc[q] = "done" /\ TypedReply(result[q])

----------------------------------------------------------------------------
(* C24 *)

\* The awaits at which a handler holds the client pool.connect() gave it.
HoldsClient(p) == pc[p] \in TrySteps \cup {"abort"}

\* C24: a handler holds exactly one client from the return of pool.connect()
\* to the end of its call and none otherwise; the step that ends the call,
\* be it COMMIT, ROLLBACK after a failed statement or a ROLLBACK that itself
\* rejects, releases that client once; and every client taken is released.
C24_ClientReleased ==
  /\ [](\A p \in Procs : conn[p] = IF HoldsClient(p) THEN 1 ELSE 0)
  /\ [][\A p \in Procs :
         (HoldsClient(p) /\ Replies(p)) => conn'[p] = conn[p] - 1]_vars
  /\ \A p \in Procs : (conn[p] > 0) ~> (pc[p] = "done" /\ conn[p] = 0)

\* ROLLBACK is about to run for a failed statement while the client is held.
C24_Witness ==
  \E p \in Procs :
    /\ pc[p] = "abort" /\ conn[p] = 1 /\ txn[p].open
    /\ txn[p].insBlocks # {}

----------------------------------------------------------------------------
(* C25 *)

OwningBlocks(t) == {b \in blocks : b.id = t.block_id}

OwningTxs(o) == {t \in transactions : t.id = o.tx_id}

\* C25: in every committed state each stored transaction has exactly one
\* stored block and each stored output exactly one stored transaction, and
\* a commit that removes a block leaves no transaction of that block and no
\* output of such a transaction.
C25_StrictOwnership ==
  /\ [](/\ \A t \in transactions : Cardinality(OwningBlocks(t)) = 1
        /\ \A o \in outputs : Cardinality(OwningTxs(o)) = 1)
  /\ [][\A b \in blocks :
         (\A c \in blocks' : c.id # b.id)
           => /\ \A t \in transactions' : t.block_id # b.id
              /\ \A o \in outputs' :
                   \A t \in transactions : t.block_id = b.id => o.tx_id # t.id]_vars

\* A rollback is about to commit the removal of a block that owns a
\* transaction with outputs, other blocks staying.
C25_Witness ==
  \E p \in Procs :
    /\ pc[p] = "rb_commit"
    /\ \E b \in blocks \ CommitBlocks(p) :
         \E t \in transactions :
           /\ t.block_id = b.id
           /\ \E o \in outputs : o.tx_id = t.id
           /\ t \notin CommitTxs(p)
           /\ \A o \in CommitOutputs(p) : o.tx_id # t.id
    /\ CommitBlocks(p) # {}

----------------------------------------------------------------------------
(* C26 *)

\* Block b has an input naming output o.
NamesAsInput(b, o) ==
  \E k \in 1..Len(FlatInputs(b.transactions)) :
    FlatInputs(b.transactions)[k] = In(o.tx_id, o.output_index)

\* The commit of this step removes the block that owns transaction id.
RemovesBlockOf(id) ==
  \E t \in transactions :
    /\ t.id = id
    /\ \E b \in blocks : b.id = t.block_id /\ (\A c \in blocks' : c.id # b.id)

\* The request whose COMMIT this step is.
Commits(p) ==
  /\ pc[p] \in {"pb_commit", "rb_commit"}
  /\ pc'[p] = "done"
  /\ ~ CommittedUnchanged

\* What the commit of p may do to the outputs table.  A row that appears is
\* unspent and belongs to a transaction of the block admitted; a row turns
\* from unspent to spent only for an admission whose block has an input
\* naming it, and from spent to unspent only for a rollback that removes the
\* block of its recorded spender; a row disappears only for a rollback that
\* removes its owning block; address and value never change.
LawfulChange(p) ==
  /\ \A n \in outputs' :
       (\A o \in outputs : Key(o) # Key(n))
         => /\ ~ n.spent
            /\ Submits(p)
            /\ \E j \in 1..Len(req[p].block.transactions) :
                 req[p].block.transactions[j].id = n.tx_id
  /\ \A o \in outputs : \A n \in outputs' :
       Key(o) = Key(n) =>
         /\ (~ o.spent /\ n.spent) => (Submits(p) /\ NamesAsInput(req[p].block, o))
         /\ (o.spent /\ ~ n.spent)
              => (req[p].op = "rollback" /\ \E id \in o.spent_by_tx : RemovesBlockOf(id))
         /\ (n.address = o.address /\ n.value = o.value)
  /\ \A o \in outputs :
       (\A n \in outputs' : Key(n) # Key(o))
         => (req[p].op = "rollback" /\ RemovesBlockOf(o.tx_id))

\* C26: the outputs table changes only in the COMMIT of one request; an
\* output is created unspent, turns spent only by an admission of a block
\* with an input naming it, turns from spent to unspent only by a rollback
\* that removes the block of its recorded spender, and is deleted only by a
\* rollback that removes its owning block.
C26_OutputLifecycle ==
  [][outputs' # outputs => \E p \in Procs : Commits(p) /\ LawfulChange(p)]_vars

----------------------------------------------------------------------------
(* C27 *)

\* The input the apply phase of p is at.
CurrentInput(p) == req[p].block.transactions[loc[p].ti].inputs[loc[p].ii]

\* The UPDATE p is about to issue matches no row in p's view.
MatchesNothing(p) ==
  \A o \in ViewOutputs(p) :
    ~ (o.tx_id = CurrentInput(p).txId /\ o.output_index = CurrentInput(p).index
       /\ ~ o.spent)

\* After the step, input i of transaction tx is recorded on its output.
MarkedAfter(tx, i) ==
  \E o \in outputs' :
    /\ Key(o) = <<tx.inputs[i].txId, tx.inputs[i].index>>
    /\ o.spent /\ o.spent_by_tx = Holds(tx.id) /\ o.spent_by_index = Holds(i - 1)

\* C27: the mark-spent UPDATE touches only a row of the named (txId, index)
\* that is unspent; when it matches no row the admission goes to its catch
\* block with nothing of the statement applied, and from there ends without
\* a success and with the tables unchanged; and every admission answered 200
\* leaves each of its inputs recorded as the spender of its output.
C27_ZeroRowsAborts ==
  [][\A p \in Procs :
       /\ (MarkOutputAsSpent(p) /\ MatchesNothing(p))
            => (pc'[p] = "abort" /\ txn'[p] = txn[p] /\ loc'[p].error # NoError)
       /\ (MarkOutputAsSpent(p) /\ ~ MatchesNothing(p))
            => /\ pc'[p] # "abort"
               /\ \A o \in ViewOutputs(p) \ ViewOutputs(p)' :
                    /\ Key(o) = <<CurrentInput(p).txId, CurrentInput(p).index>>
                    /\ ~ o.spent
               /\ \A n \in ViewOutputs(p)' \ ViewOutputs(p) :
                    /\ Key(n) = <<CurrentInput(p).txId, CurrentInput(p).index>>
                    /\ n.spent
               /\ Cardinality(ViewOutputs(p)' \ ViewOutputs(p)) = 1
       /\ (pc[p] = "abort" /\ pc'[p] # pc[p])
            => (pc'[p] = "done" /\ result'[p].status # 200 /\ CommittedUnchanged)
       /\ (pc[p] = "pb_commit" /\ Replies(p) /\ result'[p].status = 200)
            => \A j \in 1..Len(req[p].block.transactions) :
                 \A i \in 1..Len(req[p].block.transactions[j].inputs) :
                   MarkedAfter(req[p].block.transactions[j], i)]_vars

\* The UPDATE for the second input of DoubleIn2 matched no row, its first
\* input having marked the same output: the catch block is about to run.
C27_Witness ==
  \E p \in Procs :
    /\ pc[p] = "abort" /\ Submits(p) /\ req[p].block = DoubleIn2
    /\ loc[p].error.message = "Output not found or already spent"
    /\ \E o \in txn[p].newOutputs : Key(o) = <<"t1", 0>> /\ o.spent

----------------------------------------------------------------------------
(* C28 *)

\* The error markOutputAsSpent throws when its UPDATE affects no row.
ZeroRowsError == PlainError("Output not found or already spent")

\* C28: when the mark-spent UPDATE of an admission has affected no row and
\* its ROLLBACK has run, the submission is answered with the conflict error
\* 409 DOUBLE_SPEND, and nothing of the block is committed.
C28_ZeroRowsIsConflict ==
  [][\A p \in Procs :
       (Abort(p) /\ Submits(p) /\ loc[p].error = ZeroRowsError)
         => /\ result'[p].status = 409
            /\ result'[p].code = "DOUBLE_SPEND"
            /\ CommittedUnchanged]_vars

----------------------------------------------------------------------------
(* C29 *)

\* Block b carries the id of a stored transaction.
HasStoredTxId(b) ==
  \E j \in 1..Len(b.transactions) :
    \E t \in transactions : t.id = b.transactions[j].id

\* Block b carries one transaction id twice.
RepeatsTxId(b) ==
  \E j, k \in 1..Len(b.transactions) :
    j # k /\ b.transactions[j].id = b.transactions[k].id

\* C29 (requests served one at a time): no two stored transactions have the
\* same id; a block carrying the id of a stored transaction, or one id
\* twice, is never answered 200 and no step of its handling changes the
\* tables; and a block that meets the admission rules with distinct ids
\* none of which is stored, ids of rolled-back transactions included, is
\* not refused on account of its ids: it is answered 200 unless the store
\* fails.
C29_TxIdsUnique ==
  /\ [](\A t, u \in transactions : t.id = u.id => t = u)
  /\ [][\A p \in Procs :
         /\ (/\ Submits(p) /\ pc'[p] # pc[p]
             /\ (HasStoredTxId(req[p].block) \/ RepeatsTxId(req[p].block)))
              => (CommittedUnchanged /\ (Replies(p) => result'[p].status # 200))
         /\ (/\ Submits(p) /\ Replies(p) /\ result'[p].status # 500
             /\ MeetsAdmissionRules(req[p].block)
             /\ ~ HasStoredTxId(req[p].block) /\ ~ RepeatsTxId(req[p].block)
             /\ \E j \in 1..Len(req[p].block.transactions) :
                  req[p].block.transactions[j].id \in hist.retired)
              => (result'[p].status = 200 /\ Landed(req[p].block))]_vars

\* Transaction t2 was admitted, rolled back and admitted again on another
\* payload; on that ledger the INSERT of a transaction of Reuse3, under the
\* id of the stored genesis transaction, or of Twin3, under an id the block
\* has already used, has failed on the key.
C29_Witness ==
  \E p \in Procs :
    /\ pc[p] = "abort" /\ Submits(p) /\ req[p].block \in {Reuse3, Twin3}
    /\ loc[p].error.message = "duplicate key value violates unique constraint"
    /\ txn[p].insBlocks # {}
    /\ "t2" \in hist.retired
    /\ hist.at[2].kept /\ hist.at[2].block = Respend2
    /\ \E t \in transactions : t.id = "t2"
    /\ getCurrentHeight = 2

----------------------------------------------------------------------------
(* C30 *)

IsNonEmptyString(v) == v.kind = "string" /\ v.str # ""

IsIntegerAtLeast(v, k) ==
  v.kind = "number" /\ v.halves % 2 = 0 /\ v.halves >= 2 * k

IsNumberAtLeast(v, k) == v.kind = "number" /\ v.halves >= 2 * k

IsList(v) == v.kind = "array"

WellFormedInput(d) ==
  /\ d.kind = "object"
  /\ IsNonEmptyString(Prop(d, "txId"))
  /\ IsIntegerAtLeast(Prop(d, "index"), 0)

WellFormedOutput(d) ==
  /\ d.kind = "object"
  /\ IsNonEmptyString(Prop(d, "address"))
  /\ IsNumberAtLeast(Prop(d, "value"), 0)

WellFormedTransaction(d) ==
  /\ d.kind = "object"
  /\ IsNonEmptyString(Prop(d, "id"))
  /\ IsList(Prop(d, "inputs"))
  /\ IsList(Prop(d, "outputs"))
  /\ \A i \in 1..Len(d.inputs.items) : WellFormedInput(d.inputs.items[i])
  /\ \A i \in 1..Len(d.outputs.items) : WellFormedOutput(d.outputs.items[i])

WellFormedBlock(d) ==
  /\ d.kind = "object"
  /\ IsNonEmptyString(Prop(d, "id"))
  /\ IsIntegerAtLeast(Prop(d, "height"), 1)
  /\ IsList(Prop(d, "transactions"))
  /\ \A i \in 1..Len(d.transactions.items) :
       WellFormedTransaction(d.transactions.items[i])

Validated(p) == pc[p] = "done" /\ req[p].op = "validateBlockSchema"

\* C30: validateBlockSchema returns exactly on the bodies that are an object
\* with a non-empty string id, an integer height >= 1 and a list of
\* transactions, each an object with a non-empty string id and lists of
\* inputs (non-empty string txId, integer index >= 0) and outputs (non-empty
\* string address, number value >= 0); on every other body, a non-integer
\* height or index included, it throws a ValidationError.
C30_SchemaAcceptsExactly ==
  \A p \in Procs :
    Validated(p) =>
      /\ loc[p].error = NoError <=> WellFormedBlock(req[p].body)
      /\ loc[p].error # NoError =>
           /\ loc[p].error.name = "ValidationError"
           /\ loc[p].error.statusCode = 400

----------------------------------------------------------------------------
(* C31 *)

\* The digits of a numeral: what is left of the text after leading white
\* space, a sign and a 0x.
NumeralBody(cs) ==
  LET U == Unsigned(TrimStart(cs))
  IN IF HasHexPrefix(U) THEN Tail(Tail(U)) ELSE U

NumeralRadix(cs) == IF HasHexPrefix(Unsigned(TrimStart(cs))) THEN 16 ELSE 10

\* The text is an integer numeral and nothing else.
IsNumeral(cs) ==
  /\ NumeralBody(cs) # <<>>
  /\ \A i \in 1..Len(NumeralBody(cs)) :
       DigitValue(NumeralBody(cs)[i], NumeralRadix(cs)) # NoIndex

\* The value is a string or a number that stands for an integer.
ParsesToInteger(v) ==
  \/ v.kind = "number" /\ v.halves % 2 = 0
  \/ v.kind = "string" /\ IsNumeral(v.chars)

IntegerOf(v) ==
  IF v.kind = "number" THEN v.halves \div 2
  ELSE (IF Head(TrimStart(v.chars)) = 45 THEN 0 - 1 ELSE 1)
         * NumeralValue(NumeralBody(v.chars), NumeralRadix(v.chars))

\* C31: validateRollbackHeight returns the integer value of a string or
\* number that parses to an integer >= 0, and throws 'Invalid height
\* parameter' on every other value; POST /rollback with a height that parses
\* so calls rollback with that integer, and with any other text is answered
\* 400 'Invalid height parameter'.
C31_HeightParses ==
  [][\A p \in Procs :
       /\ ApplyRollbackHeight(p) =>
            IF ParsesToInteger(req[p].height) /\ IntegerOf(req[p].height) >= 0
            THEN /\ loc'[p].error = NoError
                 /\ loc'[p].returned = IntegerOf(req[p].height)
            ELSE /\ loc'[p].error.name = "ValidationError"
                 /\ loc'[p].error.message = "Invalid height parameter"
       /\ (PostRollback(p) /\ typeof(req[p].height) = "string") =>
            IF ParsesToInteger(req[p].height) /\ IntegerOf(req[p].height) >= 0
            THEN /\ pc'[p] = "rb_height"
                 /\ req'[p] = [op |-> "rollback", height |-> IntegerOf(req[p].height)]
            ELSE /\ pc'[p] = "done"
                 /\ result'[p].status = 400
                 /\ result'[p].error = "Invalid height parameter"]_vars

----------------------------------------------------------------------------
(* C32 *)

\* The total value of the unspent outputs of the ledger.
UnspentTotal == SumValues({o \in outputs : ~ o.spent})

\* The outputs created by the stored block of height 1, spent or not.
GenesisRows ==
  {o \in outputs :
     \E t \in transactions, b \in blocks :
       t.id = o.tx_id /\ t.block_id = b.id /\ b.height = 1}

GenesisTotal == SumValues(GenesisRows)

\* What block b adds to the unspent total of the ledger it is admitted on:
\* the values it creates less the values it references.
Surplus(b) ==
  SumSeq(FlatOutputValues(b.transactions))
    - ReferencedValues(FlatInputs(b.transactions))

\* The stored block b created exactly the value it spent.
BalancesExactly(b) ==
  LET ids == {t.id : t \in {u \in transactions : u.block_id = b.id}}
  IN  SumValues({o \in outputs : o.tx_id \in ids})
        = SumValues({o \in outputs : o.spent /\ o.spent_by_tx \cap ids # {}})

\* C32 as stated (requests served one at a time): in every committed state
\* the unspent outputs total exactly what the stored block of height 1
\* created, 0 on the empty ledger.
C32_TotalIsGenesis == UnspentTotal = GenesisTotal

\* C32, amended (requests served one at a time): in every committed state
\* the unspent total differs from what the stored block of height 1 created
\* by at most the tolerance for each stored block above height 1, and not at
\* all when each of them balances exactly; the COMMIT
\* of an admission above height 1 answered 200 changes the unspent total by
\* the block's outputs less its inputs, which is within the tolerance, and
\* leaves the genesis total alone; and a step that keeps the block of height
\* 1 keeps the genesis total.
C32_TotalWithinTolerance ==
  /\ [](Abs(UnspentTotal - GenesisTotal)
          <= Tolerance * Cardinality({b \in blocks : b.height > 1}))
  /\ []((\A b \in blocks : b.height > 1 => BalancesExactly(b))
          => UnspentTotal = GenesisTotal)
  /\ [][\A p \in Procs :
         /\ (/\ pc[p] = "pb_commit" /\ Replies(p) /\ result'[p].status = 200
             /\ req[p].block.height > 1)
              => /\ UnspentTotal' - UnspentTotal = Surplus(req[p].block)
                 /\ Abs(UnspentTotal' - UnspentTotal) <= Tolerance
                 /\ GenesisTotal' = GenesisTotal
         /\ ((\E b \in blocks : b.height = 1) /\ (\E b \in blocks' : b.height = 1))
              => GenesisTotal' = GenesisTotal]_vars

\* Within2, whose output exceeds its input by the tolerance, is stored at
\* height 2 over the genesis block, and the unspent total is above the
\* genesis total by the tolerance.
C32_Witness ==
  /\ BlockRowOf(Within2) \in blocks
  /\ BlockRowOf(Genesis) \in blocks
  /\ UnspentTotal = GenesisTotal + Tolerance
  /\ \A p \in Procs : pc[p] \in {"idle", "done"}

----------------------------------------------------------------------------
(* C33 *)

\* The input names an output that a transaction of block b creates.
CreatedInBlock(b, input) ==
  \E j \in 1..Len(b.transactions) :
    /\ b.transactions[j].id = input.txId
    /\ input.index \in 0..(Len(b.transactions[j].outputs) - 1)

\* The inputs of block b that name an output created by another transaction
\* of b and not stored in the ledger.
ChainedInputs(b) ==
  {k \in MissingInputs(b) :
     /\ CreatedInBlock(b, FlatInputs(b.transactions)[k])
     /\ \E j \in 1..Len(b.transactions) :
          /\ b.transactions[j].id # FlatInputs(b.transactions)[k].txId
          /\ \E i \in 1..Len(b.transactions[j].inputs) :
               b.transactions[j].inputs[i] = FlatInputs(b.transactions)[k]}

\* C33 as stated (requests served one at a time, the store answering): a
\* block with the next height and the matching id in which an input names an
\* output created by another transaction of the block is refused with 400
\* INVALID_INPUT.
C33_ChainedInputIsReferential ==
  \A p \in Procs :
    (/\ pc[p] = "done" /\ Submits(p) /\ result[p].status # 500
     /\ req[p].block.height = getCurrentHeight + 1
     /\ req[p].block.id = DigestOf(req[p].block)
     /\ ChainedInputs(req[p].block) # {})
      => (result[p].status = 400 /\ result[p].code = "INVALID_INPUT")

\* C33, amended (requests served one at a time): such a block is never
\* admitted and no step of its handling changes the tables, the outputs its
\* own transactions would create being no part of the ledger its inputs are
\* looked up in; the store answering, it is refused with 400 INVALID_INPUT
\* when every input before its first input that names no stored output names
\* a stored unspent output, and with 409 DOUBLE_SPEND otherwise.
C33_ChainedInputRefused ==
  [][\A p \in Procs :
       (/\ Submits(p)
        /\ req[p].block.height = getCurrentHeight + 1
        /\ req[p].block.id = DigestOf(req[p].block)
        /\ ChainedInputs(req[p].block) # {})
         => /\ CommittedUnchanged
            /\ Replies(p) => result'[p].status # 200
            /\ (pc[p] = "pb_getOutput" /\ pc'[p] # "done")
                 => \E o \in outputs :
                      /\ o.tx_id = FlatInputs(req[p].block.transactions)[loc[p].k].txId
                      /\ o.output_index
                           = FlatInputs(req[p].block.transactions)[loc[p].k].index
            /\ (Replies(p) /\ result'[p].status # 500)
                 => IF \E k \in MissingInputs(req[p].block) :
                         EarlierInputsFine(req[p].block, k)
                    THEN result'[p].status = 400 /\ result'[p].code = "INVALID_INPUT"
                    ELSE result'[p].status = 409 /\ result'[p].code = "DOUBLE_SPEND"]_vars

\* Chain2, whose second transaction spends the output of its first, was
\* refused with INVALID_INPUT on the ledger that holds the genesis block
\* alone, where its first input t1:0 is unspent.
C33_Witness ==
  \E p \in Procs :
    /\ pc[p] = "done" /\ Submits(p) /\ req[p].block = Chain2
    /\ ChainedInputs(Chain2) = {2}
    /\ getCurrentHeight = 1
    /\ \E o \in outputs : o.tx_id = "t1" /\ o.output_index = 0 /\ ~ o.spent
    /\ result[p].status = 400 /\ result[p].code = "INVALID_INPUT"

----------------------------------------------------------------------------
(* C34 *)

TxIdsIn(b) == {b.transactions[j].id : j \in 1..Len(b.transactions)}

\* The committed tables change by the rows of block b and by nothing else:
\* its block row, its transactions, their outputs, and spent marks set by
\* its transactions.
OnlyRowsOf(b) ==
  /\ blocks' = blocks \cup {BlockRowOf(b)}
  /\ transactions' = transactions \cup {[id |-> i, block_id |-> b.id] : i \in TxIdsIn(b)}
  /\ \A o \in outputs' \ outputs :
       o.tx_id \in TxIdsIn(b) \/ (o.spent /\ o.spent_by_tx \cap TxIdsIn(b) # {})
  /\ \A o \in outputs \ outputs' :
       ~ o.spent /\ \E n \in outputs' : Key(n) = Key(o) /\ n.spent_by_tx \cap TxIdsIn(b) # {}

\* C34 (block submissions racing each other): the stored blocks never share
\* a height or an id; of two submissions that overlapped in time and carry
\* the same height, or the same id, at most one is answered 200; a
\* submission that is not answered 200 changes no table in any of its
\* steps, and the COMMIT of the one that is changes the tables by the rows
\* of its own block only.
C34_OneBlockPerHeight ==
  /\ [](\A a, b \in blocks : (a.height = b.height \/ a.id = b.id) => a = b)
  /\ [](\A p, q \in Procs :
          (/\ p # q /\ pc[p] = "done" /\ pc[q] = "done"
           /\ Submits(p) /\ Submits(q)
           /\ (req[p].block.height = req[q].block.height
                 \/ req[p].block.id = req[q].block.id))
            => ~ (Won(p) /\ Won(q)))
  /\ [][\A p \in Procs :
         /\ (Submits(p) /\ pc'[p] # pc[p]
               /\ ~ (pc[p] = "pb_commit" /\ pc'[p] = "done" /\ result'[p].status = 200))
              => CommittedUnchanged
         /\ (Submits(p) /\ pc[p] = "pb_commit" /\ Replies(p) /\ result'[p].status = 200)
              => OnlyRowsOf(req[p].block)]_vars

\* Spend2a and the empty block of height 2 were submitted together over the
\* genesis block: one is stored, the other was refused and none of its rows
\* is in the tables.
C34_Witness ==
  \E p, q \in Procs :
    /\ p # q /\ pc[p] = "done" /\ pc[q] = "done"
    /\ {req[p], req[q]} = {[op |-> "processBlock", block |-> Spend2a],
                            [op |-> "processBlock", block |-> EmptyBlock(2)]}
    /\ Won(p) /\ result[q].status = 500
    /\ BlockRowOf(req[p].block) \in blocks
    /\ BlockRowOf(req[q].block) \notin blocks
    /\ Cardinality(blocks) = 2

----------------------------------------------------------------------------
(* C35 *)

\* C35: the COMMIT of a rollback answered 200 removes at most
\* maxRollbackBlocks blocks, whatever admissions run beside it.
C35_DeleteBounded ==
  [][\A p \in Procs :
       (RollsBack(p) /\ pc[p] = "rb_commit" /\ Replies(p) /\ result'[p].status = 200)
         => Cardinality(blocks \ blocks') <= maxRollbackBlocks]_vars

----------------------------------------------------------------------------
(* C36 *)

\* C36 (requests served one at a time): no step of a rollback to the current
\* height changes the tables, and it is answered 200 if the store answers;
\* and the COMMIT of a rollback to height t answered 200 leaves a ledger of
\* height t, on which a rollback to t passes the checks again and finds
\* nothing to remove or restore.
C36_RollbackIdempotent ==
  [][\A p \in Procs :
       /\ (RollsBack(p) /\ pc'[p] # pc[p] /\ req[p].height = getCurrentHeight)
            => /\ CommittedUnchanged
               /\ (Replies(p) /\ result'[p].status # 500) => result'[p].status = 200
       /\ (RollsBack(p) /\ pc[p] = "rb_commit" /\ Replies(p) /\ result'[p].status = 200)
            => /\ getCurrentHeight' = req[p].height
               /\ ~ FutureHeight(req[p].height, getCurrentHeight')
               /\ ~ ExcessiveRollback(req[p].height, getCurrentHeight')
               /\ KeptBlocks(req[p].height)' = blocks'
               /\ KeptTxs(req[p].height)' = transactions'
               /\ KeptOutputs(req[p].height)' = outputs']_vars

\* On a ledger that a rollback has brought back to height 1, taking t2 off,
\* a rollback to height 1 has been answered 200.
C36_Witness ==
  \E p \in Procs :
    /\ pc[p] = "done" /\ RollsBack(p) /\ result[p].status = 200
    /\ req[p].height = 1 /\ getCurrentHeight = 1
    /\ "t2" \in hist.retired
    /\ \A t \in transactions : t.id # "t2"
    /\ hist.at[2].kept = FALSE

----------------------------------------------------------------------------
(* C37 *)

\* The block p submits was removed from its height by a rollback, only
\* blocks so removed have been admitted since, each at its height, and the
\* ledger stands one block below it.
Readmits(p) ==
  /\ Submits(p)
  /\ hist.gone[req[p].block.height].kept
  /\ hist.gone[req[p].block.height].block = req[p].block
  /\ getCurrentHeight = req[p].block.height - 1

\* C37 (requests served one at a time): the COMMIT of a rollback answered
\* 200 leaves the outputs table the lowest removed block had been admitted
\* on; the re-submission of a removed block, the blocks below it re-admitted
\* in order, finds that table again, is refused by no check and fails on no
\* key, so that it is answered 200 unless the store fails; and its COMMIT
\* leaves the outputs table, hence the unspent set and every balance, that
\* its first admission had left.  This holds for the genesis block after a
\* rollback to 0 as for the others.
C37_ReadmissionRestores ==
  [][\A p \in Procs :
       /\ (RollsBack(p) /\ pc[p] = "rb_commit" /\ Replies(p) /\ result'[p].status = 200)
            => \A h \in 1..SeqMaxHeight :
                 (hist'.gone[h].kept /\ h = req[p].height + 1)
                   => outputs' = hist'.gone[h].before
       /\ (Readmits(p) /\ pc'[p] # pc[p])
            => /\ outputs = hist.gone[req[p].block.height].before
               /\ loc'[p].error \in {NoError, StoreError}
               /\ Replies(p) => result'[p].status \in {200, 500}
               /\ (Replies(p) /\ result'[p].status = 200)
                    => /\ outputs' = hist.gone[req[p].block.height].after
                       /\ Unspent(outputs')
                            = Unspent(hist.gone[req[p].block.height].after)
                       /\ \A a \in Addresses :
                            BalanceIn(outputs', a)
                              = BalanceIn(hist.gone[req[p].block.height].after, a)]_vars

\* Blocks 2 and 3 were removed by a rollback to height 1 or below; Spend2a
\* has been admitted again at height 2, and the outputs table is the one the
\* removed block of height 3 had been admitted on, which is still to be
\* re-submitted.
C37_Witness ==
  \E p \in Procs :
    /\ pc[p] = "done" /\ Submits(p) /\ req[p].block = Spend2a
    /\ result[p].status = 200
    /\ ~ hist.gone[2].kept
    /\ hist.gone[3].kept
    /\ FlatInputs(hist.gone[3].block.transactions) # <<>>
    /\ outputs = hist.gone[3].before
    /\ getCurrentHeight = 2

----------------------------------------------------------------------------
(* C38 *)

\* p submits, for the height after the current one, a block without
\* transactions whose id is the hash of that height alone.
SubmitsEmptyNext(p) ==
  /\ Submits(p)
  /\ req[p].block.transactions = <<>>
  /\ req[p].block.id = calculateBlockHash(req[p].block.height, <<>>)
  /\ req[p].block.height = getCurrentHeight + 1

\* C38 (requests served one at a time): a block without transactions, of
\* height currentHeight + 1 and with the hash of its height as id, is
\* refused by no check at any height, the first included, and is answered
\* 200 unless the store fails; its COMMIT raises the current height by one,
\* adds its row to blocks and leaves the transactions and the outputs, with
\* their spent flags, hence every balance, as they were.  A request that is
\* answered 500 leaves the whole store as it was.
C38_EmptyBlockAdmitted ==
  [][\A p \in Procs :
       (SubmitsEmptyNext(p) /\ pc'[p] # pc[p])
         => /\ loc'[p].error \in {NoError, StoreError}
            /\ outputs' = outputs
            /\ transactions' = transactions
            /\ \A a \in Addresses : BalanceIn(outputs', a) = BalanceIn(outputs, a)
            /\ Replies(p) => result'[p].status \in {200, 500}
            /\ (Replies(p) /\ result'[p].status = 200)
                 => /\ getCurrentHeight' = getCurrentHeight + 1
                    /\ getCurrentHeight' = req[p].block.height
                    /\ blocks' = blocks \cup {BlockRowOf(req[p].block)}
            /\ (Replies(p) /\ result'[p].status = 500) => blocks' = blocks]_vars

\* The block without transactions has been admitted at height 3 onto a
\* ledger that holds a spent and an unspent output, which are still there.
C38_Witness ==
  \E p \in Procs :
    /\ pc[p] = "done" /\ Submits(p) /\ req[p].block = EmptyBlock(3)
    /\ result[p].status = 200
    /\ getCurrentHeight = 3
    /\ \E o \in outputs : o.spent
    /\ \E o \in outputs : ~ o.spent

\* The block without transactions has been admitted as the first block: the
\* ledger stands at height 1 and holds no output.
C38_WitnessFirst ==
  \E p \in Procs :
    /\ pc[p] = "done" /\ Submits(p) /\ req[p].block = EmptyBlock(1)
    /\ result[p].status = 200
    /\ getCurrentHeight = 1
    /\ outputs = {}

----------------------------------------------------------------------------
(* C39 *)

\* A call of initializeDatabase has sent at most maxRetries queries.
C39_ProbesBounded ==
  \A c \in Callers : boot[c].probes <= maxRetries /\ boot[c].retries <= maxRetries

\* C39: a call of initializeDatabase sends at most 30 probe queries; when it
\* returns, a query on the pool it returns has succeeded; when it throws,
\* its 30 probes have all failed.  This is to hold of every call, a call
\* that follows a call that threw included.
C39_ReturnsProbedPool ==
  /\ C39_ProbesBounded
  /\ \A c \in Callers :
       /\ boot[c].pc = "returned" => (boot[c].returned.made /\ boot[c].returned.probed)
       /\ boot[c].pc = "threw"
            => (boot[c].probes = maxRetries /\ boot[c].retries = maxRetries)

\* The part of C39 that the code meets: the call that makes the pool returns
\* it after a query on it has succeeded, or throws after 30 failed probes.
C39_FirstCallProbes ==
  \A c \in Callers :
    (boot[c].probes > 0 \/ boot[c].pc = "threw")
      => /\ boot[c].pc = "returned" => (boot[c].returned.made /\ boot[c].returned.probed)
         /\ boot[c].pc = "threw"
              => (boot[c].probes = maxRetries /\ boot[c].retries = maxRetries)

\* One call has thrown, and another has returned, without a query of its
\* own, the pool no query has succeeded on.
C39_UnprobedReturned ==
  \E c, d \in Callers :
    /\ boot[d].pc = "threw"
    /\ boot[c].pc = "returned"
    /\ boot[c].probes = 0
    /\ ~ boot[c].returned.probed

\* A call has returned the pool while the call that made it waits to probe
\* it again.
C39_ReturnedDuringWait ==
  \E c, d \in Callers :
    /\ boot[d].pc = "wait"
    /\ boot[c].pc = "returned"
    /\ ~ boot[c].returned.probed

====
